---- MODULE Spec2Model ----
(***************************************************************************)
(* exlite: the handler adapter (wrapper / handleResult) and the error      *)
(* terminator (httpErrorHandler / globalErrorHandler), as a state machine  *)
(* over the requests a host pipeline serves.                               *)
(*                                                                         *)
(* JavaScript values are records with a "kind" field.  The response sink   *)
(* (express Response) is a log of the calls made on it, each call tagged   *)
(* with who made it (the handler, the adapter, the terminator) and with    *)
(* whether it completed (ok) or raised.  The continuation (next) is a log  *)
(* of the calls made on it.                                                *)
(***************************************************************************)
EXTENDS Integers, Sequences, FiniteSets, TLC

VARIABLES
    options,    \* the options object the caller passes to the terminator factory
    variant,    \* which terminator factory the application installs
    config,     \* what the installed terminator closure captured
    pc,         \* per request: "idle", "pending" (promise attached), "done"
    handler,    \* per request: the behaviour of the wrapped handler on this request
    sink,       \* per request: the calls made on the response sink, in order
    nextCalls,  \* per request: the calls made on the continuation, in order
    raisedOut,  \* per request: did the adapted handler raise into the host
    term,       \* per request: "none", "due", "written", "raised"
    termErr,    \* per request: the failure value the host hands the terminator
    logCalls,   \* per request: the values passed to the logging callback
    served,     \* per request: the handler from getMethod that served it
    receiver,   \* per request: the instance the controller method ran on
    diAvailable, \* can the dependency-injection package be required
    diScope,    \* the container's policy: "singleton" or "transient"
    process,    \* "running" or "exited" (process.exit(1))
    constructed, \* per class: how many times `new cls()` ran
    resolutions, \* per class: how many times the container resolved it
    memo,       \* LocalController.#instance
    controllers, \* the controller objects created so far
    obtained,   \* the handlers getMethod has returned so far
    failures,   \* the errors the facade has raised to its caller so far
    ops         \* how many facade calls the application has made

\* The state of the controller facade.
ctlVars == <<served, receiver, diAvailable, diScope, process, constructed, resolutions,
             memo, controllers, obtained, failures, ops>>

vars == <<options, variant, config, pc, handler, sink, nextCalls, raisedOut,
          term, termErr, logCalls, served, receiver, diAvailable, diScope, process,
          constructed, resolutions, memo, controllers, obtained, failures, ops>>

\* Requests the host serves through the adapted handler.
NumReqs == 1

\* Calls the application makes on the controller facade, not counting
\* those that repeat an earlier call.
MaxOps == 3

\* Requests the host serves, concurrently, through handlers from getMethod.
NumCalls == 2
Calls == 1 .. NumCalls

\* Requests in flight at once through one adapted handler.
NumInFlight == 2
Flights == 1 .. NumInFlight

Reqs == 1 .. NumReqs

(***************************************************************************)
(* JavaScript values                                                       *)
(***************************************************************************)
Undefined == [kind |-> "undefined"]
Null == [kind |-> "null"]
Num(n) == [kind |-> "number", n |-> n]
Bool(b) == [kind |-> "boolean", b |-> b]
Str(s) == [kind |-> "string", s |-> s]
\* A plain object; a circular one cannot be serialised by the sink.
Obj(id, circular) == [kind |-> "object", id |-> id, circular |-> circular]
\* The response sink of request r, as a value a handler may return.
ResOf(r) == [kind |-> "res", req |-> r]

\* new ApiRes(...): the response envelope.
ApiRes(status, message, data) ==
    [kind |-> "ApiRes", status |-> status, message |-> message, data |-> data]

\* new HttpError(message, status, detail)
HttpError(message, status, detail, stack) ==
    [kind |-> "HttpError", status |-> status, message |-> message,
     detail |-> detail, stack |-> stack]

\* new InternalServerError(message, detail): an HttpError of status 500.
InternalServerError(message, detail) ==
    HttpError(message, 500, detail, Str("stack:terminator"))

\* new Error(message)
Err(message, stack) == [kind |-> "Error", message |-> message, stack |-> stack]

\* A promise, with what it will settle to: "fulfil", "reject" or "never".
PromiseOf(settle, val) == [kind |-> "promise", settle |-> settle, val |-> val]

\* JavaScript truthiness (the test `result && ...`).
Truthy(v) ==
    /\ v.kind \notin {"undefined", "null"}
    /\ v.kind = "number" => v.n # 0
    /\ v.kind = "boolean" => v.b
    /\ v.kind = "string" => v.s # ""

\* Property read v.message / v.stack: undefined on values that have none.
GetMessage(v) == IF v.kind \in {"Error", "HttpError"} THEN v.message ELSE Undefined
GetStack(v) == IF v.kind \in {"Error", "HttpError"} THEN v.stack ELSE Undefined
\* A property read on undefined or null raises a TypeError.
ReadRaises(v) == v.kind \in {"undefined", "null"}
ReadError == Err(Str("Cannot read properties of undefined"), Str("stack:read"))

\* HttpError.isHttpError(value): an instance check.
IsHttpError(v) == v.kind = "HttpError"

\* result instanceof ApiRes / result instanceof Promise
IsApiRes(v) == v.kind = "ApiRes"
IsPromise(v) == v.kind = "promise"

\* ApiRes.toJson(): the success wire shape.
ApiResToJson(e) ==
    [kind |-> "wire", code |-> e.status, message |-> e.message, payload |-> e.data]

\* HttpError.toJson(): the error wire shape.
HttpErrorToJson(e) ==
    [kind |-> "wire", code |-> e.status, message |-> e.message, payload |-> e.detail]

(***************************************************************************)
(* The response sink and the continuation                                  *)
(***************************************************************************)
\* Can the sink serialise this body?  (JSON.stringify raises on a cycle.)
Serializable(body) ==
    IF body.kind = "object" THEN ~body.circular
    ELSE IF body.kind = "wire"
         THEN ~(body.payload.kind = "object" /\ body.payload.circular)
         ELSE TRUE

SerializeError == Err(Str("Converting circular structure to JSON"), Str("stack:sink"))

SinkCall(op, arg, by, ok) == [op |-> op, arg |-> arg, by |-> by, ok |-> ok]

\* The outcome of a piece of code run against a sink log: the log after it,
\* and whether it raised (and what).
Outcome(log, threw, error) == [sink |-> log, threw |-> threw, error |-> error]

\* res.status(code): records the status, never raises, returns the sink.
ResStatus(log, code, by) == Append(log, SinkCall("status", Num(code), by, TRUE))

\* res.json(body) / res.send(body): writes the body, or raises when the body
\* cannot be serialised.
ResWrite(log, op, body, by) ==
    IF Serializable(body)
    THEN Outcome(Append(log, SinkCall(op, body, by, TRUE)), FALSE, Undefined)
    ELSE Outcome(Append(log, SinkCall(op, body, by, FALSE)), TRUE, SerializeError)

\* next(arg), called by `by`.
NextCall(arg, by) == [arg |-> arg, by |-> by]

(***************************************************************************)
(* The wrapped handlers                                                    *)
(***************************************************************************)
\* Values a handler returns, or its promise fulfils with.
Created == ApiRes(201, Str("created"), Obj("user", FALSE))
OkCircular == ApiRes(200, Str("ok"), Obj("cycle", TRUE))
NameRequired == HttpError(Str("Name required"), 400, Undefined, Str("stack:a"))
NotFound == HttpError(Str("Not Found"), 404, Obj("detail", FALSE), Str("stack:b"))

PlainValues(r) ==
    { Undefined, Null, Num(0), Bool(FALSE), Str(""),
      ResOf(r),
      Created, OkCircular,
      Str("Hello World!"), Obj("message", FALSE), Obj("cycle", TRUE),
      NameRequired }

\* Values a handler throws, or its promise rejects with.
Failures ==
    { NameRequired, NotFound,
      Err(Str("db down"), Str("stack:c")), Err(Str("timeout"), Str("stack:d")),
      Str("boom"), Undefined }

Promises(r) ==
    { PromiseOf("fulfil", v) : v \in PlainValues(r) }
      \cup { PromiseOf("reject", e) : e \in Failures }
      \cup { PromiseOf("never", Undefined) }

\* What the wrapped handler does on one request: what it does itself with
\* the sink or the continuation ("none", "writes", "next"), and how it
\* completes: it throws val, or returns val (a plain value or a promise).
HandlerOf(self, throws, val) == [self |-> self, throws |-> throws, val |-> val]

Handlers(r) ==
    { HandlerOf(s, FALSE, v) : s \in {"none", "writes", "next"},
                               v \in PlainValues(r) \cup Promises(r) }
      \cup { HandlerOf(s, TRUE, e) : s \in {"none", "writes", "next"}, e \in Failures }

NoHandler == HandlerOf("none", FALSE, Undefined)

HandlerBody == Str("written by the handler")

\* res.status(202) called by the handler itself, which then returns a value.
HandlerStatus == Num(202)

\* func(req, res, next): the handler's own use of the sink and of the
\* continuation, and its completion.
CallHandler(h, log, nexts) ==
    [sink |-> IF h.self = "writes"
              THEN Append(log, SinkCall("send", HandlerBody, "handler", TRUE))
              ELSE IF h.self = "status"
                   THEN Append(log, SinkCall("status", HandlerStatus, "handler", TRUE))
                   ELSE log,
     next |-> IF h.self = "next"
              THEN Append(nexts, NextCall(Undefined, "handler"))
              ELSE nexts,
     threw |-> h.throws,
     value |-> h.val]

(***************************************************************************)
(* The handler adapter                                                     *)
(***************************************************************************)
\* Mutants of handleResult (each a plausible slip in that code).
\* ... the `result !== res` test forgotten.
handleResultNoSinkCheck(result, r, log) ==
    IF IsApiRes(result)
    THEN ResWrite(ResStatus(log, result.status, "adapter"), "json",
                  ApiResToJson(result), "adapter")
    ELSE IF Truthy(result)
         THEN ResWrite(log, "send", result, "adapter")
         ELSE Outcome(log, FALSE, Undefined)

\* ... the Envelope written without its status.
handleResultNoStatus(result, r, log) ==
    IF IsApiRes(result)
    THEN ResWrite(log, "json", ApiResToJson(result), "adapter")
    ELSE IF Truthy(result) /\ result # ResOf(r)
         THEN ResWrite(log, "send", result, "adapter")
         ELSE Outcome(log, FALSE, Undefined)

\* ... the plain value sent with an explicit success status.
handleResultSetsStatus(result, r, log) ==
    IF IsApiRes(result)
    THEN ResWrite(ResStatus(log, result.status, "adapter"), "json",
                  ApiResToJson(result), "adapter")
    ELSE IF Truthy(result) /\ result # ResOf(r)
         THEN ResWrite(ResStatus(log, 200, "adapter"), "send", result, "adapter")
         ELSE Outcome(log, FALSE, Undefined)

\* ... every value that is not undefined or null sent, falsy ones included.
handleResultSendsFalsy(result, r, log) ==
    IF IsApiRes(result)
    THEN ResWrite(ResStatus(log, result.status, "adapter"), "json",
                  ApiResToJson(result), "adapter")
    ELSE IF result.kind \notin {"undefined", "null"} /\ result # ResOf(r)
         THEN ResWrite(log, "send", result, "adapter")
         ELSE Outcome(log, FALSE, Undefined)

\* ... a returned error treated as a thrown one:
\* if (result instanceof Error) throw result.
handleResultThrowsErrors(result, r, log) ==
    IF IsApiRes(result)
    THEN ResWrite(ResStatus(log, result.status, "adapter"), "json",
                  ApiResToJson(result), "adapter")
    ELSE IF result.kind \in {"Error", "HttpError"}
         THEN Outcome(log, TRUE, result)
         ELSE IF Truthy(result) /\ result # ResOf(r)
              THEN ResWrite(log, "send", result, "adapter")
              ELSE Outcome(log, FALSE, Undefined)

\* ... the plain-value branch forgotten.
handleResultEnvelopeOnly(result, r, log) ==
    IF IsApiRes(result)
    THEN ResWrite(ResStatus(log, result.status, "adapter"), "json",
                  ApiResToJson(result), "adapter")
    ELSE Outcome(log, FALSE, Undefined)

handleResult(result, r, log) ==
    IF IsApiRes(result)
    THEN ResWrite(ResStatus(log, result.status, "adapter"), "json",
                  ApiResToJson(result), "adapter")
    ELSE IF Truthy(result) /\ result # ResOf(r)
         THEN ResWrite(log, "send", result, "adapter")
         ELSE Outcome(log, FALSE, Undefined)

\* The effect of one run of adapter code: the sink and continuation logs
\* after it, where the request stands, and what was raised into the host.
Effect(log, nexts, at, raised) ==
    [sink |-> log, next |-> nexts, pc |-> at, raised |-> raised]

\* Mutants of wrapper.
\* ... no try/catch: a synchronous throw propagates into the host.
wrapperNoCatch(h, r, log, nexts) ==
    LET c == CallHandler(h, log, nexts) IN
    IF c.threw
    THEN Effect(c.sink, c.next, "done", TRUE)
    ELSE IF IsPromise(c.value)
         THEN Effect(c.sink, c.next, "pending", FALSE)
         ELSE LET hr == handleResult(c.value, r, c.sink) IN
              Effect(hr.sink, c.next, "done", hr.threw)

\* ... the caught value wrapped in a new error before the hand-off.
wrapperWrapsError(h, r, log, nexts) ==
    LET c == CallHandler(h, log, nexts) IN
    IF c.threw
    THEN Effect(c.sink,
                Append(c.next,
                       NextCall(InternalServerError(GetMessage(c.value), Null),
                                "adapter")),
                "done", FALSE)
    ELSE IF IsPromise(c.value)
         THEN Effect(c.sink, c.next, "pending", FALSE)
         ELSE LET hr == handleResult(c.value, r, c.sink) IN
              IF hr.threw
              THEN Effect(hr.sink, Append(c.next, NextCall(hr.error, "adapter")),
                          "done", FALSE)
              ELSE Effect(hr.sink, c.next, "done", FALSE)

\* ... next() called after a synchronous result was handled.
wrapperAlwaysNext(h, r, log, nexts) ==
    LET c == CallHandler(h, log, nexts) IN
    IF c.threw
    THEN Effect(c.sink, Append(c.next, NextCall(c.value, "adapter")), "done", FALSE)
    ELSE IF IsPromise(c.value)
         THEN Effect(c.sink, c.next, "pending", FALSE)
         ELSE LET hr == handleResult(c.value, r, c.sink) IN
              IF hr.threw
              THEN Effect(hr.sink, Append(c.next, NextCall(hr.error, "adapter")),
                          "done", FALSE)
              ELSE Effect(hr.sink, Append(c.next, NextCall(Undefined, "adapter")),
                          "done", FALSE)

\* ... the wrapped handler called a second time.
wrapperCallsTwice(h, r, log, nexts) ==
    LET c0 == CallHandler(h, log, nexts)
        c == CallHandler(h, c0.sink, c0.next)
    IN
    IF c.threw
    THEN Effect(c.sink, Append(c.next, NextCall(c.value, "adapter")), "done", FALSE)
    ELSE IF IsPromise(c.value)
         THEN Effect(c.sink, c.next, "pending", FALSE)
         ELSE LET hr == handleResult(c.value, r, c.sink) IN
              IF hr.threw
              THEN Effect(hr.sink, Append(c.next, NextCall(hr.error, "adapter")),
                          "done", FALSE)
              ELSE Effect(hr.sink, c.next, "done", FALSE)

\* ... wrapping marks the handler, and only the first adapted handler made
\* from it calls it; the others return at once.
wrapperMarksHandler(h, r, log, nexts) ==
    IF r # 1 THEN Effect(log, nexts, "done", FALSE)
    ELSE LET c == CallHandler(h, log, nexts) IN
         IF c.threw
         THEN Effect(c.sink, Append(c.next, NextCall(c.value, "adapter")), "done", FALSE)
         ELSE IF IsPromise(c.value)
              THEN Effect(c.sink, c.next, "pending", FALSE)
              ELSE LET hr == handleResult(c.value, r, c.sink) IN
                   IF hr.threw
                   THEN Effect(hr.sink, Append(c.next, NextCall(hr.error, "adapter")),
                               "done", FALSE)
                   ELSE Effect(hr.sink, c.next, "done", FALSE)

\* ... next() called as soon as a promise comes back, before it settles.
wrapperNextBeforeSettle(h, r, log, nexts) ==
    LET c == CallHandler(h, log, nexts) IN
    IF c.threw
    THEN Effect(c.sink, Append(c.next, NextCall(c.value, "adapter")), "done", FALSE)
    ELSE IF IsPromise(c.value)
         THEN Effect(c.sink, Append(c.next, NextCall(Undefined, "adapter")),
                     "pending", FALSE)
         ELSE LET hr == handleResult(c.value, r, c.sink) IN
              IF hr.threw
              THEN Effect(hr.sink, Append(c.next, NextCall(hr.error, "adapter")),
                          "done", FALSE)
              ELSE Effect(hr.sink, c.next, "done", FALSE)

\* ... the handled result passed on to the continuation: next(result).
wrapperPassesResultOn(h, r, log, nexts) ==
    LET c == CallHandler(h, log, nexts) IN
    IF c.threw
    THEN Effect(c.sink, Append(c.next, NextCall(c.value, "adapter")), "done", FALSE)
    ELSE IF IsPromise(c.value)
         THEN Effect(c.sink, c.next, "pending", FALSE)
         ELSE LET hr == handleResult(c.value, r, c.sink) IN
              IF hr.threw
              THEN Effect(hr.sink, Append(c.next, NextCall(hr.error, "adapter")),
                          "done", FALSE)
              ELSE Effect(hr.sink, Append(c.next, NextCall(c.value, "adapter")),
                          "done", FALSE)

\* The body of the adapted handler, up to the point where it returns to the
\* host: try { func(...); promise ? attach : handleResult } catch { next }.
wrapper(h, r, log, nexts) ==
    LET c == CallHandler(h, log, nexts) IN
    IF c.threw
    THEN Effect(c.sink, Append(c.next, NextCall(c.value, "adapter")), "done", FALSE)
    ELSE IF IsPromise(c.value)
         THEN Effect(c.sink, c.next, "pending", FALSE)
         ELSE LET hr == handleResult(c.value, r, c.sink) IN
              IF hr.threw
              THEN Effect(hr.sink, Append(c.next, NextCall(hr.error, "adapter")),
                          "done", FALSE)
              ELSE Effect(hr.sink, c.next, "done", FALSE)

\* Mutants of the settlement callbacks.
\* ... the rejection kept in one place for all invocations: each hand-off
\* passes whatever was stored there.
onSettledSharedFailure(p, r, log, nexts) ==
    IF p.settle = "reject"
    THEN Effect(log, Append(nexts, NextCall(NotFound, "adapter")), "done", FALSE)
    ELSE LET hr == handleResult(p.val, r, log) IN
         IF hr.threw
         THEN Effect(hr.sink, Append(nexts, NextCall(hr.error, "adapter")),
                     "done", FALSE)
         ELSE Effect(hr.sink, nexts, "done", FALSE)

\* ... the fulfilled value not routed to handleResult: then(() => {}).
onSettledDropsValue(p, r, log, nexts) ==
    IF p.settle = "reject"
    THEN Effect(log, Append(nexts, NextCall(p.val, "adapter")), "done", FALSE)
    ELSE Effect(log, nexts, "done", FALSE)

\* ... the callbacks attached in the other order, result.catch(next).then(...):
\* a write that raises inside then is handed to nobody.
onSettledCatchFirst(p, r, log, nexts) ==
    IF p.settle = "reject"
    THEN Effect(log, Append(nexts, NextCall(p.val, "adapter")), "done", FALSE)
    ELSE LET hr == handleResult(p.val, r, log) IN
         Effect(hr.sink, nexts, "done", FALSE)

\* ... control passed on after a fulfilled value was handled:
\* then(value => { handleResult(value, res); next(); }).
onSettledCallsNext(p, r, log, nexts) ==
    IF p.settle = "reject"
    THEN Effect(log, Append(nexts, NextCall(p.val, "adapter")), "done", FALSE)
    ELSE LET hr == handleResult(p.val, r, log) IN
         IF hr.threw
         THEN Effect(hr.sink, Append(nexts, NextCall(hr.error, "adapter")),
                     "done", FALSE)
         ELSE Effect(hr.sink, Append(nexts, NextCall(Undefined, "adapter")),
                     "done", FALSE)

\* result.then(value => handleResult(value, res)).catch(next), once the
\* promise has settled.
onSettled(p, r, log, nexts) ==
    IF p.settle = "reject"
    THEN Effect(log, Append(nexts, NextCall(p.val, "adapter")), "done", FALSE)
    ELSE LET hr == handleResult(p.val, r, log) IN
         IF hr.threw
         THEN Effect(hr.sink, Append(nexts, NextCall(hr.error, "adapter")),
                     "done", FALSE)
         ELSE Effect(hr.sink, nexts, "done", FALSE)

(***************************************************************************)
(* The error terminator                                                    *)
(***************************************************************************)
NotInstalled == [installed |-> FALSE, dev |-> FALSE, log |-> "none"]

\* Mutants of the two factories.
\* ... the defaults of the other variant: no callback unless one is given.
httpErrorHandlerNoDefaultLog(opts) ==
    [installed |-> TRUE,
     dev |-> IF opts.dev = "absent" THEN TRUE ELSE opts.dev = "true",
     log |-> IF opts.log = "absent" THEN "none" ELSE opts.log]

\* ... console.error as the default callback, as in the other variant.
globalErrorHandlerDefaultLog(opts) ==
    [installed |-> TRUE,
     dev |-> IF opts.dev = "absent" THEN TRUE ELSE opts.dev = "true",
     log |-> IF opts.log = "absent" THEN "console.error" ELSE opts.log]

\* httpErrorHandler(options): const {dev = true, log = console.error} = options
httpErrorHandler(opts) ==
    [installed |-> TRUE,
     dev |-> IF opts.dev = "absent" THEN TRUE ELSE opts.dev = "true",
     log |-> IF opts.log = "absent" THEN "console.error" ELSE opts.log]

\* globalErrorHandler(options): const {isDev = true, write = undefined} = options
globalErrorHandler(opts) ==
    [installed |-> TRUE,
     dev |-> IF opts.dev = "absent" THEN TRUE ELSE opts.dev = "true",
     log |-> IF opts.log = "absent" THEN "none" ELSE opts.log]

LogFault == Err(Str("logger failed"), Str("stack:log"))

GenericMessage == Str("Something went wrong")

\* log?.(err): the callback is called with the raw value, when there is one;
\* a callback that raises ends the terminator there.
CallLog(cfg, err, logs) ==
    [logs |-> IF cfg.log = "none" THEN logs ELSE Append(logs, err),
     threw |-> cfg.log = "raises",
     error |-> IF cfg.log = "raises" THEN LogFault ELSE Undefined]

\* Mutants of the terminator.
\* ... the HttpError branch forgotten: every failure becomes a generic 500.
ErrorTerminatorAll500(cfg, err, log, logs) ==
    LET l == CallLog(cfg, err, logs) IN
    IF l.threw
    THEN [logs |-> l.logs, out |-> Outcome(log, TRUE, l.error)]
    ELSE LET error == InternalServerError(
                         IF cfg.dev THEN GetMessage(err) ELSE GenericMessage,
                         IF cfg.dev THEN GetStack(err) ELSE Null)
         IN [logs |-> l.logs,
             out |-> ResWrite(ResStatus(log, error.status, "terminator"),
                              "json", HttpErrorToJson(error), "terminator")]

\* ... the fault's message sent whatever the dev flag says.
ErrorTerminatorLeaks(cfg, err, log, logs) ==
    IF IsHttpError(err)
    THEN [logs |-> logs,
          out |-> ResWrite(ResStatus(log, err.status, "terminator"), "json",
                           HttpErrorToJson(err), "terminator")]
    ELSE LET l == CallLog(cfg, err, logs) IN
         IF l.threw
         THEN [logs |-> l.logs, out |-> Outcome(log, TRUE, l.error)]
         ELSE LET error == InternalServerError(GetMessage(err),
                                               IF cfg.dev THEN GetStack(err) ELSE Null)
              IN [logs |-> l.logs,
                  out |-> ResWrite(ResStatus(log, error.status, "terminator"),
                                   "json", HttpErrorToJson(error), "terminator")]

\* ... the response written before the callback is called.
ErrorTerminatorWritesFirst(cfg, err, log, logs) ==
    IF IsHttpError(err)
    THEN [logs |-> logs,
          out |-> ResWrite(ResStatus(log, err.status, "terminator"), "json",
                           HttpErrorToJson(err), "terminator")]
    ELSE LET error == InternalServerError(
                         IF cfg.dev THEN GetMessage(err) ELSE GenericMessage,
                         IF cfg.dev THEN GetStack(err) ELSE Null)
             w == ResWrite(ResStatus(log, error.status, "terminator"),
                           "json", HttpErrorToJson(error), "terminator")
             l == CallLog(cfg, err, logs)
         IN [logs |-> l.logs,
             out |-> IF l.threw THEN Outcome(w.sink, TRUE, l.error) ELSE w]

\* ... the callback called before the HttpError test, for every value.
ErrorTerminatorLogsFirst(cfg, err, log, logs) ==
    LET l == CallLog(cfg, err, logs) IN
    IF l.threw
    THEN [logs |-> l.logs, out |-> Outcome(log, TRUE, l.error)]
    ELSE IF IsHttpError(err)
         THEN [logs |-> l.logs,
               out |-> ResWrite(ResStatus(log, err.status, "terminator"), "json",
                                HttpErrorToJson(err), "terminator")]
         ELSE IF cfg.dev /\ ReadRaises(err)
              THEN [logs |-> l.logs, out |-> Outcome(log, TRUE, ReadError)]
              ELSE LET error == InternalServerError(
                                   IF cfg.dev THEN GetMessage(err) ELSE GenericMessage,
                                   IF cfg.dev THEN GetStack(err) ELSE Null)
                   IN [logs |-> l.logs,
                       out |-> ResWrite(ResStatus(log, error.status, "terminator"),
                                        "json", HttpErrorToJson(error), "terminator")]

\* (err, req, res, next) => ...: the installed terminator on one failure value.
ErrorTerminator(cfg, err, log, logs) ==
    IF IsHttpError(err)
    THEN [logs |-> logs,
          out |-> ResWrite(ResStatus(log, err.status, "terminator"), "json",
                           HttpErrorToJson(err), "terminator")]
    ELSE LET l == CallLog(cfg, err, logs) IN
         IF l.threw
         THEN [logs |-> l.logs, out |-> Outcome(log, TRUE, l.error)]
         ELSE IF cfg.dev /\ ReadRaises(err)
              THEN [logs |-> l.logs, out |-> Outcome(log, TRUE, ReadError)]
              ELSE LET error == InternalServerError(
                                   IF cfg.dev THEN GetMessage(err) ELSE GenericMessage,
                                   IF cfg.dev THEN GetStack(err) ELSE Null)
                   IN [logs |-> l.logs,
                       out |-> ResWrite(ResStatus(log, error.status, "terminator"),
                                        "json", HttpErrorToJson(error), "terminator")]

(***************************************************************************)
(* The controller facade                                                   *)
(***************************************************************************)
\* The controller classes of the application: two that extend
\* LocalController, and LocalController itself.
UserClasses == {"AuthController", "BlogController"}
Classes == UserClasses \cup {"LocalController"}

\* The class the application hands to createController / wrapperController.
FactoryClasses == {"AuthController"}

\* The member names the application asks a controller object for, and
\* those it asks the static getMethod of a class for.
Keys == {"login", "title", "missing", "toString"}
StaticKeys == {"login", "toString", "valueOf"}

\* typeof instance[key]: toString and valueOf are inherited by every object;
\* login is a method and title a string property of the application's classes.
MemberType(cls, key) ==
    IF key \in {"toString", "valueOf"} THEN "function"
    ELSE IF cls \in UserClasses /\ key = "login" THEN "function"
    ELSE IF cls \in UserClasses /\ key = "title" THEN "string"
    ELSE "undefined"

\* An instance: of which class, made by `new` or by the container, and which one.
Inst(cls, how, n) == [cls |-> cls, how |-> how, n |-> n]
NoInstance == Inst("none", "none", 0)

\* The counters a resolution reads and updates.
Counts(c, d) == [constructed |-> c, resolutions |-> d]

\* The result of resolving: "instance" (with the instance), "exit"
\* (process.exit(1) was called) or "throw" (with the error raised).
Resolved(outcome, instance, error, counts) ==
    [outcome |-> outcome, instance |-> instance, error |-> error, counts |-> counts]

\* new cls()
Construct(cls, counts) ==
    Resolved("instance", Inst(cls, "new", counts.constructed[cls] + 1), "none",
             Counts([counts.constructed EXCEPT ![cls] = @ + 1], counts.resolutions))

\* container.resolve(cls) / Container.get(cls): the container hands out one
\* instance per class, or a new one on every call.
ContainerResolve(cls, counts, scope) ==
    Resolved("instance",
             Inst(cls, "di", IF scope = "singleton" THEN 1
                             ELSE counts.resolutions[cls] + 1),
             "none",
             Counts(counts.constructed, [counts.resolutions EXCEPT ![cls] = @ + 1]))

\* ... a missing tsyringe raised to the caller instead of ending the process.
resolveCatchable(cls, type, counts, available, scope) ==
    IF type = "local" THEN Construct(cls, counts)
    ELSE IF ~available
         THEN Resolved("throw", NoInstance, "FailedToResolve", counts)
         ELSE ContainerResolve(cls, counts, scope)

\* resolve(cls, type) of createController: a missing tsyringe ends the process.
resolve(cls, type, counts, available, scope) ==
    IF type = "local" THEN Construct(cls, counts)
    ELSE IF ~available THEN Resolved("exit", NoInstance, "none", counts)
    ELSE ContainerResolve(cls, counts, scope)

\* resolver(cls) of the earlier createController(cls, local = false).
resolver(cls, counts, available, scope) ==
    IF ~available THEN Resolved("exit", NoInstance, "none", counts)
    ELSE ContainerResolve(cls, counts, scope)

\* resolve(cls, type) of wrapperController: a missing package, or a type that
\* is none of the three, raises an Error.
resolveOrThrow(cls, type, counts, available, scope) ==
    IF type = "local" THEN Construct(cls, counts)
    ELSE IF type \in {"tsyringe", "typedi"}
         THEN IF ~available
              THEN Resolved("throw", NoInstance, "FailedToResolve", counts)
              ELSE ContainerResolve(cls, counts, scope)
         ELSE Resolved("throw", NoInstance, "InvalidContainerType", counts)

\* The three factories: createController(cls, type), the earlier
\* createController(cls, local) and wrapperController(cls, type).
Apis == {"createController", "createControllerLocalFlag", "wrapperController"}
Modes(api) ==
    IF api = "createController" THEN {"local", "tsyringe"}
    ELSE IF api = "createControllerLocalFlag" THEN {"local", "container"}
    ELSE {"local", "tsyringe", "typedi", "other"}

\* ... local instances kept per class: the second local creation for a class
\* gets the instance of the first.
createControllerCachesLocal(api, cls, mode, counts, available, scope) ==
    IF mode = "local"
    THEN IF counts.constructed[cls] > 0
         THEN Resolved("instance", Inst(cls, "new", 1), "none", counts)
         ELSE Construct(cls, counts)
    ELSE IF api = "createController"
         THEN resolve(cls, mode, counts, available, scope)
         ELSE IF api = "createControllerLocalFlag"
              THEN resolver(cls, counts, available, scope)
              ELSE resolveOrThrow(cls, mode, counts, available, scope)

\* const instance = resolve(cls, type) / local ? new cls() : resolver(cls)
createController(api, cls, mode, counts, available, scope) ==
    IF api = "createController" THEN resolve(cls, mode, counts, available, scope)
    ELSE IF api = "createControllerLocalFlag"
         THEN IF mode = "local" THEN Construct(cls, counts)
              ELSE resolver(cls, counts, available, scope)
         ELSE resolveOrThrow(cls, mode, counts, available, scope)

\* A handler getMethod returns: wrapper(handler.bind(instance)), with the
\* instance the member was read from and the one it is bound to.
BoundHandler(from, key, lookedUpOn, boundTo) ==
    [from |-> from, key |-> key, lookedUpOn |-> lookedUpOn, boundTo |-> boundTo]
\* Where a handler comes from: a controller object (numbered from 1), or
\* the static getMethod of a class.
StaticGetMethod == 0
NoBoundHandler == BoundHandler(StaticGetMethod, "none", NoInstance, NoInstance)

\* The result of getMethod: a handler, or the error it raised.
Got(ok, h, error) == [ok |-> ok, handler |-> h, error |-> error]

\* ... a new instance resolved on every getMethod call.
getWrappedMethodResolvesAgain(from, instance, key) ==
    IF MemberType(instance.cls, key) # "function"
    THEN Got(FALSE, NoBoundHandler, "NotAFunction")
    ELSE Got(TRUE,
             BoundHandler(from, key, instance,
                          Inst(instance.cls, instance.how, instance.n + 1)),
             "none")

\* ... the typeof test forgotten: the failure is left to the first request.
getWrappedMethodUnchecked(from, instance, key) ==
    Got(TRUE, BoundHandler(from, key, instance, instance), "none")

\* ... the member returned without bind(instance).
getWrappedMethodUnbound(from, instance, key) ==
    IF MemberType(instance.cls, key) # "function"
    THEN Got(FALSE, NoBoundHandler, "NotAFunction")
    ELSE Got(TRUE, BoundHandler(from, key, instance, NoInstance), "none")

\* getWrappedMethod(instance, key) / getMethod(key) of a controller object.
getWrappedMethod(from, instance, key) ==
    IF MemberType(instance.cls, key) # "function"
    THEN Got(FALSE, NoBoundHandler, "NotAFunction")
    ELSE Got(TRUE, BoundHandler(from, key, instance, instance), "none")

\* this.#instance: a private static field can be read only with the class
\* that declares it as the receiver; with a subclass it raises a TypeError.
PrivateStaticReadable(cls) == cls = "LocalController"

\* The result of LocalController.getMethod: what getMethod gives, and the
\* memo and the counters after it.
LocalGot(got, m, counts) == [got |-> got, memo |-> m, counts |-> counts]

\* ... no memo: a new instance on every call.
LocalControllerGetMethodNoMemo(cls, key, m, counts) ==
    IF ~PrivateStaticReadable(cls)
    THEN LocalGot(Got(FALSE, NoBoundHandler, "TypeError"), m, counts)
    ELSE LET res == Construct(cls, counts) IN
         LocalGot(getWrappedMethod(StaticGetMethod, res.instance, key),
                  res.instance, res.counts)

\* static getMethod(key) of LocalController, called as cls.getMethod(key):
\* const instance = (this.#instance ??= resolve(this, 'local')).
LocalControllerGetMethod(cls, key, m, counts) ==
    IF ~PrivateStaticReadable(cls)
    THEN LocalGot(Got(FALSE, NoBoundHandler, "TypeError"), m, counts)
    ELSE IF m # NoInstance
         THEN LocalGot(getWrappedMethod(StaticGetMethod, m, key), m, counts)
         ELSE LET res == Construct(cls, counts) IN
              LocalGot(getWrappedMethod(StaticGetMethod, res.instance, key),
                       res.instance, res.counts)

\* The result of the static getMethod of Controller: what getMethod gives,
\* the counters after it, and whether the process was ended.
StaticGot(got, counts, exited) == [got |-> got, counts |-> counts, exited |-> exited]

\* ... the first instance kept and reused, as LocalController does.
ControllerGetMethodCached(cls, key, counts, available, scope) ==
    IF counts.resolutions[cls] > 0
    THEN StaticGot(getWrappedMethod(StaticGetMethod, Inst(cls, "di", 1), key),
                   counts, FALSE)
    ELSE LET res == resolve(cls, "tsyringe", counts, available, scope) IN
         IF res.outcome = "exit"
         THEN StaticGot(Got(FALSE, NoBoundHandler, "none"), res.counts, TRUE)
         ELSE StaticGot(getWrappedMethod(StaticGetMethod, res.instance, key),
                        res.counts, FALSE)

\* static getMethod(key) of Controller, called as cls.getMethod(key):
\* return getWrappedMethod(resolve(this, 'tsyringe'), key).
ControllerGetMethod(cls, key, counts, available, scope) ==
    LET res == resolve(cls, "tsyringe", counts, available, scope) IN
    IF res.outcome = "exit"
    THEN StaticGot(Got(FALSE, NoBoundHandler, "none"), res.counts, TRUE)
    ELSE StaticGot(getWrappedMethod(StaticGetMethod, res.instance, key),
                   res.counts, FALSE)

\* The facade before the application has used it.
CtlInit(R) ==
    /\ served = [r \in R |-> NoBoundHandler]
    /\ receiver = [r \in R |-> NoInstance]
    /\ process = "running"
    /\ constructed = [c \in Classes |-> 0]
    /\ resolutions = [c \in Classes |-> 0]
    /\ memo = NoInstance
    /\ controllers = {}
    /\ obtained = {}
    /\ failures = {}
    /\ ops = 0

(***************************************************************************)
(* The host pipeline                                                       *)
(***************************************************************************)
\* The host runs its error middleware for a continuation call that carries
\* a truthy value; next() and next(<falsy>) pass control on.
FailureOf(nexts) ==
    IF \E i \in 1 .. Len(nexts) : Truthy(nexts[i].arg)
    THEN nexts[CHOOSE i \in 1 .. Len(nexts) : Truthy(nexts[i].arg)].arg
    ELSE Undefined

Dispatch(r, e) ==
    /\ term' = [term EXCEPT ![r] = IF Truthy(FailureOf(e.next)) THEN "due" ELSE "none"]
    /\ termErr' = [termErr EXCEPT ![r] = FailureOf(e.next)]

OptionSets == [dev : {"absent", "true", "false"}, log : {"absent", "ok", "raises"}]

Init ==
    /\ options \in OptionSets
    /\ variant \in {"httpErrorHandler", "globalErrorHandler"}
    /\ config = NotInstalled
    /\ pc = [r \in Reqs |-> "idle"]
    /\ handler = [r \in Reqs |-> NoHandler]
    /\ sink = [r \in Reqs |-> <<>>]
    /\ nextCalls = [r \in Reqs |-> <<>>]
    /\ raisedOut = [r \in Reqs |-> FALSE]
    /\ term = [r \in Reqs |-> "none"]
    /\ termErr = [r \in Reqs |-> Undefined]
    /\ logCalls = [r \in Reqs |-> <<>>]
    /\ diAvailable = TRUE
    /\ diScope = "singleton"
    /\ CtlInit(Reqs)

\* app.use(httpErrorHandler(options)) / app.use(globalErrorHandler(options))
Install ==
    /\ ~config.installed
    /\ config' = IF variant = "httpErrorHandler"
                 THEN httpErrorHandler(options)
                 ELSE globalErrorHandler(options)
    /\ UNCHANGED <<options, variant, pc, handler, sink, nextCalls, raisedOut,
                   term, termErr, logCalls>>
    /\ UNCHANGED ctlVars

\* The host calls the adapted handler for request r.
Invoke(r) ==
    /\ process = "running"
    /\ config.installed
    /\ pc[r] = "idle"
    /\ \E h \in Handlers(r) :
         LET e == wrapper(h, r, sink[r], nextCalls[r]) IN
         /\ handler' = [handler EXCEPT ![r] = h]
         /\ pc' = [pc EXCEPT ![r] = e.pc]
         /\ sink' = [sink EXCEPT ![r] = e.sink]
         /\ nextCalls' = [nextCalls EXCEPT ![r] = e.next]
         /\ raisedOut' = [raisedOut EXCEPT ![r] = e.raised]
         /\ Dispatch(r, e)
    /\ UNCHANGED <<options, variant, config, logCalls>>
    /\ UNCHANGED ctlVars

\* The promise the handler returned for request r settles.
Settle(r) ==
    /\ process = "running"
    /\ pc[r] = "pending"
    /\ handler[r].val.settle # "never"
    /\ LET e == onSettled(handler[r].val, r, sink[r], nextCalls[r]) IN
         /\ pc' = [pc EXCEPT ![r] = e.pc]
         /\ sink' = [sink EXCEPT ![r] = e.sink]
         /\ nextCalls' = [nextCalls EXCEPT ![r] = e.next]
         /\ Dispatch(r, e)
    /\ UNCHANGED <<options, variant, config, handler, raisedOut, logCalls>>
    /\ UNCHANGED ctlVars

\* The host runs the installed terminator on the failure of request r.
ErrorHandler(r) ==
    /\ process = "running"
    /\ term[r] = "due"
    /\ LET t == ErrorTerminator(config, termErr[r], sink[r], logCalls[r]) IN
         /\ sink' = [sink EXCEPT ![r] = t.out.sink]
         /\ logCalls' = [logCalls EXCEPT ![r] = t.logs]
         /\ term' = [term EXCEPT ![r] = IF t.out.threw THEN "raised" ELSE "written"]
    /\ UNCHANGED <<options, variant, config, pc, handler, nextCalls, raisedOut,
                   termErr>>
    /\ UNCHANGED ctlVars

Next ==
    \/ Install
    \/ \E r \in Reqs : Invoke(r)
    \/ \E r \in Reqs : Settle(r)
    \/ \E r \in Reqs : ErrorHandler(r)

Spec == Init /\ [][Next]_vars

(***************************************************************************)
(* The application using the controller facade                             *)
(***************************************************************************)
\* A controller object: { getMethod } closed over the resolved instance.
ControllerObject(id, cls, instance) ==
    [id |-> id, cls |-> cls, instance |-> instance]

\* An error the facade raised to its caller, and which call raised it.
Failure(op, cls, key, error) ==
    [op |-> op, cls |-> cls, key |-> key, error |-> error]

\* What the controller methods of the application do on a request.
Methods(r) ==
    { HandlerOf("none", FALSE, Created),
      HandlerOf("none", TRUE, NotFound),
      HandlerOf("none", FALSE, PromiseOf("reject", Err(Str("db down"), Str("stack:c")))) }

\* `this` inside the method: wrapper calls func(req, res, next) as a plain
\* call, so it is the instance bind fixed, or undefined without one.
ReceiverOf(hd) == hd.boundTo

\* The application at startup: no terminator is needed to register routes,
\* and the container package is installed, with one of its two policies,
\* or not.
InitCtl ==
    /\ options = [dev |-> "absent", log |-> "absent"]
    /\ variant = "httpErrorHandler"
    /\ config = NotInstalled
    /\ pc = [r \in Calls |-> "idle"]
    /\ handler = [r \in Calls |-> NoHandler]
    /\ sink = [r \in Calls |-> <<>>]
    /\ nextCalls = [r \in Calls |-> <<>>]
    /\ raisedOut = [r \in Calls |-> FALSE]
    /\ term = [r \in Calls |-> "none"]
    /\ termErr = [r \in Calls |-> Undefined]
    /\ logCalls = [r \in Calls |-> <<>>]
    /\ diAvailable \in BOOLEAN
    /\ diScope \in (IF diAvailable THEN {"singleton", "transient"}
                    ELSE {"singleton"})
    /\ CtlInit(Calls)

\* A facade call that left something behind; a call that only repeats an
\* earlier one (the same handler again, the same error again) is not counted.
FacadeChanged ==
    <<process, constructed, resolutions, memo, controllers, obtained, failures>>'
      # <<process, constructed, resolutions, memo, controllers, obtained, failures>>

\* const controller = createController(cls, mode) / wrapperController(cls, mode)
CreateController(api, cls, mode) ==
    /\ process = "running"
    /\ ops < MaxOps
    /\ LET res == createController(api, cls, mode, Counts(constructed, resolutions),
                                   diAvailable, diScope) IN
         /\ constructed' = res.counts.constructed
         /\ resolutions' = res.counts.resolutions
         /\ process' = IF res.outcome = "exit" THEN "exited" ELSE process
         /\ controllers' =
              IF res.outcome = "instance"
              THEN controllers \cup
                     {ControllerObject(Cardinality(controllers) + 1, cls,
                                       res.instance)}
              ELSE controllers
         /\ failures' =
              IF res.outcome = "throw"
              THEN failures \cup {Failure(api, cls, "none", res.error)}
              ELSE failures
    /\ UNCHANGED <<options, variant, config, pc, handler, sink, nextCalls,
                   raisedOut, term, termErr, logCalls>>
    /\ UNCHANGED <<served, receiver, diAvailable, diScope, memo, obtained>>
    /\ ops' = IF FacadeChanged THEN ops + 1 ELSE ops

\* controller.getMethod(key), at route registration
GetMethod(k, key) ==
    /\ process = "running"
    /\ ops < MaxOps
    /\ LET got == getWrappedMethod(k.id, k.instance, key) IN
         /\ obtained' = IF got.ok THEN obtained \cup {got.handler} ELSE obtained
         /\ failures' =
              IF got.ok THEN failures
              ELSE failures \cup {Failure("getMethod", k.cls, key, got.error)}
    /\ UNCHANGED <<options, variant, config, pc, handler, sink, nextCalls,
                   raisedOut, term, termErr, logCalls>>
    /\ UNCHANGED <<served, receiver, diAvailable, diScope, process, constructed,
                   resolutions, memo, controllers>>
    /\ ops' = IF FacadeChanged THEN ops + 1 ELSE ops

\* cls.getMethod(key) for a class that is, or extends, LocalController
LocalGetMethod(cls, key) ==
    /\ process = "running"
    /\ ops < MaxOps
    /\ LET l == LocalControllerGetMethod(cls, key, memo,
                                         Counts(constructed, resolutions)) IN
         /\ memo' = l.memo
         /\ constructed' = l.counts.constructed
         /\ resolutions' = l.counts.resolutions
         /\ obtained' = IF l.got.ok THEN obtained \cup {l.got.handler} ELSE obtained
         /\ failures' =
              IF l.got.ok THEN failures
              ELSE failures \cup
                     {Failure("LocalController.getMethod", cls, key,
                              l.got.error)}
    /\ UNCHANGED <<options, variant, config, pc, handler, sink, nextCalls,
                   raisedOut, term, termErr, logCalls>>
    /\ UNCHANGED <<served, receiver, diAvailable, diScope, process, controllers>>
    /\ ops' = IF FacadeChanged THEN ops + 1 ELSE ops

\* The host calls a handler obtained from getMethod on request r; the method
\* it adapts behaves as h.
Serve(r, hd) ==
    /\ process = "running"
    /\ pc[r] = "idle"
    /\ \A q \in 1 .. r - 1 : pc[q] # "idle"
    /\ \E h \in Methods(r) :
         LET e == wrapper(h, r, sink[r], nextCalls[r]) IN
         /\ handler' = [handler EXCEPT ![r] = h]
         /\ pc' = [pc EXCEPT ![r] = e.pc]
         /\ sink' = [sink EXCEPT ![r] = e.sink]
         /\ nextCalls' = [nextCalls EXCEPT ![r] = e.next]
         /\ raisedOut' = [raisedOut EXCEPT ![r] = e.raised]
         /\ Dispatch(r, e)
    /\ served' = [served EXCEPT ![r] = hd]
    /\ receiver' = [receiver EXCEPT ![r] = ReceiverOf(hd)]
    /\ UNCHANGED <<options, variant, config, logCalls>>
    /\ UNCHANGED <<diAvailable, diScope, process, constructed, resolutions, memo,
                   controllers, obtained, failures, ops>>

NextCtl ==
    \/ \E api \in Apis, cls \in FactoryClasses : \E mode \in Modes(api) :
         CreateController(api, cls, mode)
    \/ \E k \in controllers, key \in Keys : GetMethod(k, key)
    \/ \E cls \in Classes, key \in StaticKeys : LocalGetMethod(cls, key)
    \/ \E r \in Calls : \E hd \in obtained : Serve(r, hd)
    \/ \E r \in Calls : Settle(r)

SpecCtl == InitCtl /\ [][NextCtl]_vars

(***************************************************************************)
(* The application using the static getMethod of Controller                *)
(***************************************************************************)
\* cls.getMethod(key) for a class that extends Controller
DIGetMethod(cls, key) ==
    /\ process = "running"
    /\ ops < MaxOps
    /\ LET g == ControllerGetMethod(cls, key, Counts(constructed, resolutions),
                                    diAvailable, diScope) IN
         /\ constructed' = g.counts.constructed
         /\ resolutions' = g.counts.resolutions
         /\ process' = IF g.exited THEN "exited" ELSE process
         /\ obtained' = IF g.got.ok THEN obtained \cup {g.got.handler} ELSE obtained
         /\ failures' =
              IF g.got.ok \/ g.exited THEN failures
              ELSE failures \cup
                     {Failure("Controller.getMethod", cls, key, g.got.error)}
    /\ UNCHANGED <<options, variant, config, pc, handler, sink, nextCalls,
                   raisedOut, term, termErr, logCalls>>
    /\ UNCHANGED <<served, receiver, diAvailable, diScope, memo, controllers>>
    /\ ops' = IF FacadeChanged THEN ops + 1 ELSE ops

NextDI ==
    \/ \E cls \in UserClasses, key \in Keys : DIGetMethod(cls, key)
    \/ \E r \in Reqs : \E hd \in obtained : Serve(r, hd)
    \/ \E r \in Reqs : Settle(r)

SpecDI == InitCtl /\ [][NextDI]_vars

(***************************************************************************)
(* Requests in flight through one adapted handler                          *)
(***************************************************************************)
\* What the wrapped handler does on the request r it is called with: it
\* returns a value, or a promise of one, or fails, or sets the status itself
\* and returns a value.
InFlight(r) ==
    { HandlerOf("none", FALSE, v) : v \in PlainValues(r) }
      \cup { HandlerOf("none", FALSE, PromiseOf("fulfil", v)) : v \in PlainValues(r) }
      \cup { HandlerOf("none", FALSE, PromiseOf("reject", e)) :
               e \in {NotFound, Err(Str("db down"), Str("stack:c"))} }
      \cup { HandlerOf("none", FALSE, PromiseOf("never", Undefined)),
             HandlerOf("none", TRUE, Err(Str("timeout"), Str("stack:d"))) }
      \cup { HandlerOf("status", FALSE, v) :
               v \in {Str("Hello World!"), Created,
                      PromiseOf("fulfil", Obj("message", FALSE))} }

InitConc ==
    /\ options = [dev |-> "absent", log |-> "absent"]
    /\ variant = "httpErrorHandler"
    /\ config = NotInstalled
    /\ pc = [r \in Flights |-> "idle"]
    /\ handler = [r \in Flights |-> NoHandler]
    /\ sink = [r \in Flights |-> <<>>]
    /\ nextCalls = [r \in Flights |-> <<>>]
    /\ raisedOut = [r \in Flights |-> FALSE]
    /\ term = [r \in Flights |-> "none"]
    /\ termErr = [r \in Flights |-> Undefined]
    /\ logCalls = [r \in Flights |-> <<>>]
    /\ diAvailable = TRUE
    /\ diScope = "singleton"
    /\ CtlInit(Flights)

\* The host calls the adapted handler on request r, the wrapped handler
\* behaving as one of H.
Call(r, H) ==
    /\ pc[r] = "idle"
    /\ \E h \in H :
         LET e == wrapper(h, r, sink[r], nextCalls[r]) IN
         /\ handler' = [handler EXCEPT ![r] = h]
         /\ pc' = [pc EXCEPT ![r] = e.pc]
         /\ sink' = [sink EXCEPT ![r] = e.sink]
         /\ nextCalls' = [nextCalls EXCEPT ![r] = e.next]
         /\ raisedOut' = [raisedOut EXCEPT ![r] = e.raised]
         /\ Dispatch(r, e)
    /\ UNCHANGED <<options, variant, config, logCalls>>
    /\ UNCHANGED ctlVars

\* The host calls the adapted handler on request r while others are in flight.
Request(r) == Call(r, InFlight(r))

NextConc ==
    \/ \E r \in Flights : Request(r)
    \/ \E r \in Flights : Settle(r)

SpecConc == InitConc /\ [][NextConc]_vars

\* Handlers that return a promise: it fulfils with a value, rejects with a
\* reason, or never settles.
Promised(r) ==
    { HandlerOf("none", FALSE, PromiseOf("fulfil", v)) :
        v \in {Created, Str("Hello World!"), Obj("cycle", TRUE), Undefined,
               Num(0), ResOf(r)} }
      \cup { HandlerOf("none", FALSE, PromiseOf("reject", e)) :
               e \in {NotFound, Err(Str("db down"), Str("stack:c"))} }
      \cup { HandlerOf("none", FALSE, PromiseOf("never", Undefined)) }

\* The host calls the adapted handler and gets back to the event loop with
\* the handler's promise pending.
Await(r) == Call(r, Promised(r))

NextLive ==
    \/ \E r \in Flights : Await(r)
    \/ \E r \in Flights : Settle(r)

\* Every settled promise runs its callbacks: a promise that fulfils or
\* rejects queues its reaction, and the event loop drains the queue.
SpecLive ==
    InitConc /\ [][NextLive]_vars /\ \A r \in Flights : WF_vars(Settle(r))

(***************************************************************************)
(* The caller changing its options object after installation               *)
(***************************************************************************)
InitCfg == Init

\* The objects one assignment to a property of o can make of it.
Assigned(o) ==
    { [o EXCEPT !.dev = d] : d \in {"absent", "true", "false"} \ {o.dev} }
      \cup { [o EXCEPT !.log = l] : l \in {"absent", "ok", "raises"} \ {o.log} }

\* ... the terminator keeps the options object and reads it on each failure,
\* so a change of the object is a change of what the terminator uses.
MutateOptionsAliased ==
    /\ config.installed
    /\ \E o \in Assigned(options) :
         /\ options' = o
         /\ config' = IF variant = "httpErrorHandler"
                      THEN httpErrorHandler(o)
                      ELSE globalErrorHandler(o)
    /\ UNCHANGED <<variant, pc, handler, sink, nextCalls, raisedOut, term,
                   termErr, logCalls>>
    /\ UNCHANGED ctlVars

\* options.dev = ...; options.log = ...: the caller assigns to the object it
\* passed. The terminator holds the values it destructured, not the object.
MutateOptions ==
    /\ config.installed
    /\ \E o \in Assigned(options) : options' = o
    /\ UNCHANGED <<variant, config, pc, handler, sink, nextCalls, raisedOut,
                   term, termErr, logCalls>>
    /\ UNCHANGED ctlVars

NextCfg ==
    \/ Install
    \/ MutateOptions
    \/ \E r \in Reqs : config.installed /\ Request(r)
    \/ \E r \in Reqs : Settle(r)
    \/ \E r \in Reqs : ErrorHandler(r)

SpecCfg == InitCfg /\ [][NextCfg]_vars

(***************************************************************************)
(* A handler wrapped once and the same handler wrapped twice               *)
(***************************************************************************)
\* What a raise out of the adapted handler would carry: the value the
\* wrapped handler threw, or the error of the sink.
RaisedValue(h) == IF h.throws THEN h.val ELSE SerializeError

\* ... the adapted handler returning what the wrapped handler returned.
AdaptedCallReturnsResult(h, r, log, nexts) ==
    LET e == wrapper(h, r, log, nexts) IN
    [sink |-> e.sink, next |-> e.next, threw |-> e.raised,
     value |-> IF h.throws THEN Undefined ELSE h.val, pc |-> e.pc]

\* wrapper(h)(req, res, next) seen by its caller: the adapted handler is a
\* block-bodied arrow function, it returns undefined, also while a promise
\* of the wrapped handler is still pending.
AdaptedCall(h, r, log, nexts) ==
    LET e == wrapper(h, r, log, nexts) IN
    [sink |-> e.sink, next |-> e.next, threw |-> e.raised,
     value |-> Undefined, pc |-> e.pc]

\* wrapper(wrapper(h))(req, res, next): the outer adapter runs the same
\* body on the adapted handler.  The request stays pending while the inner
\* promise is.
wrapperOfWrapper(h, r, log, nexts) ==
    LET c == AdaptedCall(h, r, log, nexts) IN
    IF c.threw
    THEN Effect(c.sink, Append(c.next, NextCall(RaisedValue(h), "adapter")),
                c.pc, FALSE)
    ELSE IF IsPromise(c.value)
         THEN Effect(c.sink, c.next, "pending", FALSE)
         ELSE LET hr == handleResult(c.value, r, c.sink) IN
              IF hr.threw
              THEN Effect(hr.sink, Append(c.next, NextCall(hr.error, "adapter")),
                          c.pc, FALSE)
              ELSE Effect(hr.sink, c.next, c.pc, FALSE)

\* The handlers wrapped: those of the requests in flight, and handlers that
\* answer or pass control on themselves.
Wrapped(r) ==
    InFlight(r)
      \cup { HandlerOf("writes", FALSE, v) :
               v \in {Undefined, ResOf(r), PromiseOf("fulfil", Undefined)} }
      \cup { HandlerOf("next", FALSE, v) :
               v \in {Undefined, Bool(FALSE), PromiseOf("fulfil", Undefined)} }

\* app.get(path, wrapper(h)) and app.get(path, wrapper(wrapper(h))): the
\* requests with an odd number go to the first route, the others to the
\* second.
WrappedOnce(r) == r % 2 = 1
WrappedTwice(r) == r % 2 = 0

CallOnce(r) == WrappedOnce(r) /\ Call(r, Wrapped(r))

CallTwice(r) ==
    /\ WrappedTwice(r)
    /\ pc[r] = "idle"
    /\ \E h \in Wrapped(r) :
         LET e == wrapperOfWrapper(h, r, sink[r], nextCalls[r]) IN
         /\ handler' = [handler EXCEPT ![r] = h]
         /\ pc' = [pc EXCEPT ![r] = e.pc]
         /\ sink' = [sink EXCEPT ![r] = e.sink]
         /\ nextCalls' = [nextCalls EXCEPT ![r] = e.next]
         /\ raisedOut' = [raisedOut EXCEPT ![r] = e.raised]
         /\ Dispatch(r, e)
    /\ UNCHANGED <<options, variant, config, logCalls>>
    /\ UNCHANGED ctlVars

NextWrap ==
    \/ \E r \in Flights : CallOnce(r)
    \/ \E r \in Flights : CallTwice(r)
    \/ \E r \in Flights : Settle(r)

SpecWrap == InitConc /\ [][NextWrap]_vars

(***************************************************************************)
(* Observations the properties are stated over                             *)
(***************************************************************************)
ByAdapter(c) == c.by = "adapter"
ByTerminator(c) == c.by = "terminator"
IsBodyWrite(c) == c.op \in {"json", "send"}
AdapterBodyWrite(c) == ByAdapter(c) /\ IsBodyWrite(c)

\* The calls the adapter made on the sink of r, the body writes among them,
\* and the calls it made on the continuation of r.
AdapterCalls(r) == SelectSeq(sink[r], ByAdapter)
AdapterWrites(r) == SelectSeq(sink[r], AdapterBodyWrite)
HandOffs(r) == SelectSeq(nextCalls[r], ByAdapter)
TerminatorCalls(r) == SelectSeq(sink[r], ByTerminator)

\* The adapter has finished with request r.
Done(r) == pc[r] = "done"

\* The handler of r failed: it threw, or its promise rejects.
Fails(h) == h.throws \/ (IsPromise(h.val) /\ h.val.settle = "reject")
FailureValue(h) == IF h.throws THEN h.val ELSE h.val.val

\* The handler of r produced a value: it returned one, or its promise
\* fulfils with one.
Yields(h) == ~h.throws /\ (IsPromise(h.val) => h.val.settle = "fulfil")
Eventual(h) == IF IsPromise(h.val) THEN h.val.val ELSE h.val

\* The adapter writes this value: an Envelope, or a truthy value that is not
\* the sink of the request.
Writable(v, r) == IsApiRes(v) \/ (Truthy(v) /\ v # ResOf(r))

(***************************************************************************)
(* C1.  One invocation of wrapper(h) results in exactly one sink write by  *)
(* the adapter or exactly one failure hand-off, never zero of them and     *)
(* never two.  (The statement as claimed; refuted.)                        *)
(***************************************************************************)
C1_ExactlyOneAction ==
    \A r \in Reqs :
        Done(r) => Len(AdapterWrites(r)) + Len(HandOffs(r)) = 1

(***************************************************************************)
(* C1, amended.  One invocation results in at most one adapter write and   *)
(* at most one hand-off: one write when the eventual value is an Envelope  *)
(* or another truthy value that is not the sink; one hand-off when the     *)
(* handler throws or rejects (and then no write) or when the adapter's own *)
(* write raises; neither when the value is falsy or is the sink itself.    *)
(***************************************************************************)
C1_AtMostOneEach ==
    \A r \in Reqs :
        /\ Len(AdapterWrites(r)) <= 1
        /\ Len(HandOffs(r)) <= 1
        /\ Done(r) =>
             LET h == handler[r] IN
             /\ Len(AdapterWrites(r)) = 1 <=> (Yields(h) /\ Writable(Eventual(h), r))
             /\ Len(HandOffs(r)) = 1 <=>
                  \/ Fails(h)
                  \/ Len(AdapterWrites(r)) = 1 /\ ~AdapterWrites(r)[1].ok

C1_Witness ==
    \E r \in Reqs :
        /\ Done(r)
        /\ handler[r].val = PromiseOf("fulfil", ResOf(r))
        /\ handler[r].self = "writes"
        /\ Len(AdapterWrites(r)) = 0
        /\ Len(HandOffs(r)) = 0

(***************************************************************************)
(* C2.  When the handler throws E, or its promise rejects with E, the      *)
(* adapter calls next with exactly E, once, and makes no call on the sink; *)
(* what reaches the host's failure path is E in both cases.                *)
(***************************************************************************)
C2_FailureIdentity ==
    \A r \in Reqs :
        (Done(r) /\ Fails(handler[r])) =>
            /\ HandOffs(r) = << NextCall(FailureValue(handler[r]), "adapter") >>
            /\ AdapterCalls(r) = << >>
            /\ termErr[r] = (IF Truthy(FailureValue(handler[r]))
                             THEN FailureValue(handler[r]) ELSE Undefined)

C2_Witness ==
    \E r \in Reqs :
        /\ Done(r)
        /\ handler[r].val = PromiseOf("reject", NotFound)
        /\ HandOffs(r) = << NextCall(NotFound, "adapter") >>
        /\ termErr[r] = NotFound

(***************************************************************************)
(* C3.  A value the wrapped handler raises synchronously is never raised   *)
(* out of the adapted handler: every call of the adapted handler returns   *)
(* normally to the host, the raised value having gone to next.             *)
(***************************************************************************)
C3_NeverRaisesOut ==
    \A r \in Reqs :
        pc[r] # "idle" =>
            /\ ~raisedOut[r]
            /\ handler[r].throws =>
                 /\ Done(r)
                 /\ HandOffs(r) = << NextCall(handler[r].val, "adapter") >>

C3_Witness ==
    \E r \in Reqs :
        /\ Done(r)
        /\ handler[r].throws
        /\ handler[r].val = Err(Str("db down"), Str("stack:c"))
        /\ ~raisedOut[r]
        /\ Len(HandOffs(r)) = 1

(***************************************************************************)
(* C4.  When the eventual value is an Envelope, the adapter calls          *)
(* status(code of the Envelope) and then json(serialised Envelope) on the  *)
(* sink, each exactly once and in that order, and nothing else; the json   *)
(* call completes unless the body cannot be serialised.                    *)
(***************************************************************************)
C4_EnvelopeWrite ==
    \A r \in Reqs :
        LET h == handler[r]
            e == Eventual(h)
        IN (Done(r) /\ Yields(h) /\ IsApiRes(e)) =>
               AdapterCalls(r) =
                   << SinkCall("status", Num(e.status), "adapter", TRUE),
                      SinkCall("json", ApiResToJson(e), "adapter",
                               Serializable(ApiResToJson(e))) >>

C4_Witness ==
    \E r \in Reqs :
        /\ Done(r)
        /\ handler[r].val = PromiseOf("fulfil", Created)
        /\ AdapterCalls(r)[1] = SinkCall("status", Num(201), "adapter", TRUE)
        /\ AdapterCalls(r)[2].op = "json"
        /\ AdapterCalls(r)[2].ok

(***************************************************************************)
(* C5.  For every eventual value that is not an Envelope, is present       *)
(* (anything other than undefined/null) and is not the sink itself, the    *)
(* adapter writes that value as the body.  (The statement as claimed;      *)
(* refuted: 0, false and the empty string are not written.)                *)
(***************************************************************************)
C5_PresentValueWritten ==
    \A r \in Reqs :
        LET h == handler[r]
            v == Eventual(h)
        IN (/\ Done(r)
            /\ Yields(h)
            /\ ~IsApiRes(v)
            /\ v.kind \notin {"undefined", "null"}
            /\ v # ResOf(r)) =>
               /\ Len(AdapterWrites(r)) = 1
               /\ AdapterWrites(r)[1].arg = v

(***************************************************************************)
(* C5, amended.  For every eventual value that is not an Envelope, is      *)
(* truthy (so not undefined, null, 0, false or the empty string) and is    *)
(* not the sink itself, the adapter makes exactly one call on the sink:    *)
(* send(that value).                                                       *)
(***************************************************************************)
C5_TruthyValueSent ==
    \A r \in Reqs :
        LET h == handler[r]
            v == Eventual(h)
        IN (/\ Done(r)
            /\ Yields(h)
            /\ ~IsApiRes(v)
            /\ Truthy(v)
            /\ v # ResOf(r)) =>
               AdapterCalls(r) = << SinkCall("send", v, "adapter", Serializable(v)) >>

C5_Witness ==
    \E r \in Reqs :
        /\ Done(r)
        /\ handler[r] = HandlerOf("none", FALSE, Str("Hello World!"))
        /\ sink[r] = << SinkCall("send", Str("Hello World!"), "adapter", TRUE) >>

(***************************************************************************)
(* C6.  When the eventual value is absent (undefined or null) or is the    *)
(* sink itself, the adapter makes no call on the sink; and in every state  *)
(* the adapter has written to the sink of a request at most once.          *)
(***************************************************************************)
C6_NoWriteWhenAbsentOrSink ==
    \A r \in Reqs :
        LET h == handler[r]
            v == Eventual(h)
        IN /\ Len(AdapterWrites(r)) <= 1
           /\ (/\ Done(r)
               /\ Yields(h)
               /\ (v \in {Undefined, Null} \/ v = ResOf(r))) =>
                  AdapterCalls(r) = << >>

C6_Witness ==
    \E r \in Reqs :
        /\ Done(r)
        /\ handler[r] = HandlerOf("writes", FALSE, ResOf(r))
        /\ sink[r] = << SinkCall("send", HandlerBody, "handler", TRUE) >>

\* The terminator has run on the failure of request r.
Terminated(r) == term[r] \in {"written", "raised"}
TerminatorBodyWrite(c) == ByTerminator(c) /\ IsBodyWrite(c)
TerminatorWrites(r) == SelectSeq(sink[r], TerminatorBodyWrite)

(***************************************************************************)
(* C7.  For a failure value that is an HttpError e, the terminator calls   *)
(* status(e.status) and then json(body) on the sink, where body carries    *)
(* e.status, e.message and e.detail unchanged, and it does not raise.      *)
(***************************************************************************)
C7_ClassifiedResponse ==
    \A r \in Reqs :
        LET e == termErr[r] IN
        (Terminated(r) /\ IsHttpError(e)) =>
            /\ term[r] = "written"
            /\ TerminatorCalls(r) =
                 << SinkCall("status", Num(e.status), "terminator", TRUE),
                    SinkCall("json",
                             [kind |-> "wire", code |-> e.status,
                              message |-> e.message, payload |-> e.detail],
                             "terminator", TRUE) >>

C7_Witness ==
    \E r \in Reqs :
        /\ term[r] = "written"
        /\ termErr[r] = NotFound
        /\ TerminatorCalls(r)[1].arg = Num(404)
        /\ TerminatorCalls(r)[2].arg.payload = Obj("detail", FALSE)

(***************************************************************************)
(* C8.  With development mode off, what the terminator does to the sink    *)
(* for a failure value that is not an HttpError does not depend on that    *)
(* value: it is status 500 with the fixed message 'Something went wrong'   *)
(* and no detail (or nothing at all when the logging callback raised).     *)
(***************************************************************************)
GenericResponse ==
    << SinkCall("status", Num(500), "terminator", TRUE),
       SinkCall("json",
                [kind |-> "wire", code |-> 500,
                 message |-> Str("Something went wrong"), payload |-> Null],
                "terminator", TRUE) >>

C8_ProductionResponseFixed ==
    /\ \A r \in Reqs :
         (Terminated(r) /\ ~IsHttpError(termErr[r]) /\ ~config.dev) =>
             TerminatorCalls(r) = (IF term[r] = "written" THEN GenericResponse ELSE << >>)
    /\ \A r1, r2 \in Reqs :
         (/\ Terminated(r1) /\ ~IsHttpError(termErr[r1])
          /\ Terminated(r2) /\ ~IsHttpError(termErr[r2])
          /\ ~config.dev) =>
             TerminatorCalls(r1) = TerminatorCalls(r2)

C8_Witness ==
    \E r \in Reqs :
        /\ term[r] = "written"
        /\ ~config.dev
        /\ termErr[r] = Err(Str("db down"), Str("stack:c"))
        /\ TerminatorCalls(r) = GenericResponse

(***************************************************************************)
(* C9.  For every failure value and every configuration, one run of the    *)
(* terminator writes exactly one response to the sink and does not raise.  *)
(* (The statement as claimed; the code breaks it when the logging callback *)
(* raises.)                                                                *)
(***************************************************************************)
C9_ExactlyOneResponse ==
    \A r \in Reqs :
        Terminated(r) =>
            /\ term[r] = "written"
            /\ Len(TerminatorWrites(r)) = 1

(***************************************************************************)
(* C10.  A logging callback that raises does not prevent the response: for *)
(* a failure value that is not an HttpError the terminator still writes    *)
(* its status-500 response and does not raise.  (The statement as claimed; *)
(* the code breaks it: log?.(err) is not guarded.)                         *)
(***************************************************************************)
C10_RaisingLoggerStillResponds ==
    \A r \in Reqs :
        (Terminated(r) /\ ~IsHttpError(termErr[r]) /\ config.log = "raises") =>
            /\ term[r] = "written"
            /\ Len(TerminatorCalls(r)) = 2
            /\ TerminatorCalls(r)[1] = SinkCall("status", Num(500), "terminator", TRUE)

(***************************************************************************)
(* C11.  For every failure value that is not an HttpError, with            *)
(* development mode on, the terminator writes status 500 and a body whose  *)
(* message is the fault's own message and whose detail is the fault's own  *)
(* stack.  (The statement as claimed; the code breaks it when the logging  *)
(* callback raises, see C10.)                                              *)
(***************************************************************************)
C11_DevResponseExposesFault ==
    \A r \in Reqs :
        LET e == termErr[r] IN
        (Terminated(r) /\ ~IsHttpError(e) /\ config.dev) =>
            /\ term[r] = "written"
            /\ TerminatorCalls(r) =
                 << SinkCall("status", Num(500), "terminator", TRUE),
                    SinkCall("json",
                             [kind |-> "wire", code |-> 500,
                              message |-> GetMessage(e), payload |-> GetStack(e)],
                             "terminator", TRUE) >>

(***************************************************************************)
(* C12.  A failure value that is not an HttpError is passed to the         *)
(* configured logging callback exactly once, as the raw value, and before  *)
(* the terminator touches the sink: when the callback raises, the sink has *)
(* no call of the terminator, and otherwise the status-500 response        *)
(* follows.                                                                *)
(***************************************************************************)
C12_LoggedOnceBeforeResponse ==
    \A r \in Reqs :
        /\ Len(logCalls[r]) <= 1
        /\ (Terminated(r) /\ ~IsHttpError(termErr[r]) /\ config.log # "none") =>
             /\ logCalls[r] = << termErr[r] >>
             /\ term[r] = "raised" => TerminatorCalls(r) = << >>
             /\ term[r] = "written" =>
                  /\ Len(TerminatorCalls(r)) = 2
                  /\ TerminatorCalls(r)[1].arg = Num(500)
        /\ ~Terminated(r) => logCalls[r] = << >>

C12_Witness ==
    \E r \in Reqs :
        /\ term[r] = "written"
        /\ config.log = "ok"
        /\ termErr[r] = Str("boom")
        /\ logCalls[r] = << Str("boom") >>
        /\ TerminatorCalls(r)[1].arg = Num(500)

(***************************************************************************)
(* C13.  End to end: when the wrapped handler throws or rejects with an    *)
(* HttpError e without having written the sink, the adapter makes no sink  *)
(* call, the host's failure path gets e itself, and once the terminator    *)
(* has run the sink holds exactly one response: status e.status with a     *)
(* body carrying e.message, written by the terminator.                     *)
(***************************************************************************)
C13_ClassifiedEndToEnd ==
    \A r \in Reqs :
        LET h == handler[r]
            e == FailureValue(h)
        IN (Done(r) /\ Fails(h) /\ IsHttpError(e) /\ h.self # "writes") =>
               /\ AdapterCalls(r) = << >>
               /\ termErr[r] = e
               /\ term[r] \in {"due", "written"}
               /\ term[r] = "due" => sink[r] = << >>
               /\ term[r] = "written" =>
                    sink[r] =
                      << SinkCall("status", Num(e.status), "terminator", TRUE),
                         SinkCall("json",
                                  [kind |-> "wire", code |-> e.status,
                                   message |-> e.message, payload |-> e.detail],
                                  "terminator", TRUE) >>

C13_Witness ==
    \E r \in Reqs :
        /\ handler[r] = HandlerOf("none", TRUE, NameRequired)
        /\ term[r] = "written"
        /\ Len(sink[r]) = 2
        /\ sink[r][1] = SinkCall("status", Num(400), "terminator", TRUE)
        /\ sink[r][2].arg.message = Str("Name required")

\* What the facade has handed out: the handlers obtained from controller
\* object k, those obtained from the static getMethod of a class, and the
\* requests one of them has served.
HandlersOf(k) == { h \in obtained : h.from = k.id }
StaticHandlers(cls) ==
    { h \in obtained : h.from = StaticGetMethod /\ h.lookedUpOn.cls = cls }
WasServed(r) == served[r] # NoBoundHandler
FactoryMade(cls) == { k \in controllers : k.cls = cls }
LocallyMade(cls) == { k \in FactoryMade(cls) : k.instance.how = "new" }
StaticFailures(cls) ==
    { f \in failures : f.op = "LocalController.getMethod" /\ f.cls = cls }

C15_PerClassInstance ==
    \A cls \in UserClasses :
        /\ \A f \in StaticFailures(cls) : MemberType(cls, f.key) # "function"
        /\ \A h \in StaticHandlers(cls) : h.boundTo.cls = cls

\* Every handler handed out, and every handler that served a request, is for
\* a member that is a function; NotAFunction is raised only for the others.
C16_NoHandlerForNonFunction ==
    /\ \A h \in obtained : MemberType(h.lookedUpOn.cls, h.key) = "function"
    /\ \A f \in failures :
           f.error = "NotAFunction" => MemberType(f.cls, f.key) # "function"
    /\ \A r \in Calls :
           WasServed(r) =>
               MemberType(served[r].lookedUpOn.cls, served[r].key) = "function"

\* A call on the facade leaves every sink, continuation and request alone.
C16_FacadeLeavesSinks ==
    FacadeChanged =>
        /\ sink' = sink
        /\ nextCalls' = nextCalls
        /\ pc' = pc

(***************************************************************************)
(* C16.  getMethod(name) returns a handler only for a member that is a     *)
(* function: for a member that is absent or not a function it raises, at   *)
(* the getMethod call, so that no handler for it exists and no request is  *)
(* ever served by one; and no call on the facade touches a sink or a       *)
(* continuation.                                                           *)
(***************************************************************************)
C16_RaisesAtGetMethod ==
    [](C16_NoHandlerForNonFunction) /\ [][C16_FacadeLeavesSinks]_vars

C16_Witness ==
    /\ Failure("getMethod", "AuthController", "missing", "NotAFunction") \in failures
    /\ Failure("getMethod", "AuthController", "title", "NotAFunction") \in failures
    /\ obtained = {}
    /\ \A r \in Calls : pc[r] = "idle" /\ sink[r] = << >>

(***************************************************************************)
(* C17.  A handler returned by getMethod(name) runs the named method with  *)
(* the instance it was looked up on as the receiver, and behaves as the    *)
(* adapter does: an Envelope the method returns is written as status then  *)
(* json, a value it throws or rejects with goes to next unchanged, and     *)
(* nothing is raised out of the handler.                                   *)
(***************************************************************************)
C17_BoundAndAdapted ==
    \A r \in Calls :
        WasServed(r) =>
            /\ served[r] \in obtained
            /\ receiver[r] = served[r].lookedUpOn
            /\ receiver[r] # NoInstance
            /\ \A k \in controllers :
                   served[r].from = k.id => receiver[r] = k.instance
            /\ ~raisedOut[r]
            /\ (Done(r) /\ Fails(handler[r])) =>
                   /\ HandOffs(r) = << NextCall(FailureValue(handler[r]), "adapter") >>
                   /\ AdapterCalls(r) = << >>
            /\ (Done(r) /\ Yields(handler[r]) /\ IsApiRes(Eventual(handler[r]))) =>
                   /\ HandOffs(r) = << >>
                   /\ AdapterCalls(r) =
                        << SinkCall("status", Num(Eventual(handler[r]).status),
                                    "adapter", TRUE),
                           SinkCall("json", ApiResToJson(Eventual(handler[r])),
                                    "adapter", TRUE) >>

C17_Witness ==
    \E k \in controllers :
        /\ served[1] = BoundHandler(k.id, "login", k.instance, k.instance)
        /\ receiver[1] = k.instance
        /\ handler[1].val = Created
        /\ Len(AdapterCalls(1)) = 2
        /\ served[2] = served[1]
        /\ receiver[2] = k.instance
        /\ handler[2].throws
        /\ HandOffs(2) = << NextCall(NotFound, "adapter") >>

C19_ResolvedOnceAtCreation ==
    /\ \A cls \in Classes :
           constructed[cls] + resolutions[cls] =
               Cardinality(FactoryMade(cls)) + (IF memo.cls = cls THEN 1 ELSE 0)
    /\ \A k \in controllers :
           \A h \in HandlersOf(k) :
               /\ h.lookedUpOn = k.instance
               /\ h.boundTo = k.instance
    /\ \A r \in Calls :
           \A k \in controllers :
               (WasServed(r) /\ served[r].from = k.id) => receiver[r] = k.instance

C19_Witness ==
    \E k \in controllers :
        /\ controllers = {k}
        /\ k.instance.how = "di"
        /\ resolutions[k.cls] = 1
        /\ constructed[k.cls] = 0
        /\ Cardinality(HandlersOf(k)) = 2
        /\ \E r \in Calls : WasServed(r) /\ receiver[r] = k.instance

ByHandler(c) == c.by = "handler"
CompletedAdapterWrite(c) == AdapterBodyWrite(c) /\ c.ok
\* What the handler itself did to the sink and the continuation of r, and
\* the adapter's writes that completed.
HandlerSinkCalls(r) == SelectSeq(sink[r], ByHandler)
HandlerNextCalls(r) == SelectSeq(nextCalls[r], ByHandler)
CompletedAdapterWrites(r) == SelectSeq(sink[r], CompletedAdapterWrite)

\* In this state, request r has seen: the handler run exactly once (its own
\* effects appear once) if it was invoked and not at all otherwise; nothing
\* from the adapter while the promise is pending; and at most one of a
\* completed adapter write and a hand-off.
C20_StateOrder(r) ==
    /\ Len(HandlerSinkCalls(r)) =
         (IF pc[r] # "idle" /\ handler[r].self = "writes" THEN 1 ELSE 0)
    /\ Len(HandlerNextCalls(r)) =
         (IF pc[r] # "idle" /\ handler[r].self = "next" THEN 1 ELSE 0)
    /\ pc[r] \in {"idle", "pending"} =>
         (AdapterCalls(r) = << >> /\ HandOffs(r) = << >>)
    /\ pc[r] = "pending" => IsPromise(handler[r].val)
    /\ Len(CompletedAdapterWrites(r)) + Len(HandOffs(r)) <= 1

\* In this step, request r moves only forward (idle, then pending for a
\* promise, then done), and once done the adapter does nothing more.
C20_StepOrder(r) ==
    /\ pc[r] = "idle" => pc'[r] \in {"idle", "pending", "done"}
    /\ pc[r] = "pending" => pc'[r] \in {"pending", "done"}
    /\ pc[r] = "done" =>
         /\ pc'[r] = "done"
         /\ AdapterCalls(r)' = AdapterCalls(r)
         /\ HandOffs(r)' = HandOffs(r)
         /\ HandlerSinkCalls(r)' = HandlerSinkCalls(r)

OwnAdapterCalls(h, r) ==
    IF Fails(h) THEN << >>
    ELSE LET e == Eventual(h) IN
         IF IsApiRes(e)
         THEN << SinkCall("status", Num(e.status), "adapter", TRUE),
                 SinkCall("json", ApiResToJson(e), "adapter",
                          Serializable(ApiResToJson(e))) >>
         ELSE IF Writable(e, r)
              THEN << SinkCall("send", e, "adapter", Serializable(e)) >>
              ELSE << >>

OwnHandOffs(h, r) ==
    IF Fails(h) THEN << NextCall(FailureValue(h), "adapter") >>
    ELSE IF \E i \in 1 .. Len(OwnAdapterCalls(h, r)) : ~OwnAdapterCalls(h, r)[i].ok
         THEN << NextCall(SerializeError, "adapter") >>
         ELSE << >>

(***************************************************************************)
(* C21.  With several requests in flight through the same adapted handler, *)
(* settling in any order, each sink holds only the adapter write that the  *)
(* result of its own invocation calls for and each continuation only its   *)
(* own invocation's failure value; a request not yet invoked, or whose     *)
(* promise is pending, has received nothing from the adapter.              *)
(***************************************************************************)
C21_OwnResultOnly ==
    \A r \in Flights :
        /\ pc[r] = "idle" => (sink[r] = << >> /\ nextCalls[r] = << >>)
        /\ pc[r] = "pending" => (AdapterCalls(r) = << >> /\ HandOffs(r) = << >>)
        /\ Done(r) =>
               /\ AdapterCalls(r) = OwnAdapterCalls(handler[r], r)
               /\ HandOffs(r) = OwnHandOffs(handler[r], r)

C21_Witness ==
    /\ pc[1] = "pending"
    /\ handler[1].val = PromiseOf("fulfil", Created)
    /\ sink[1] = << >>
    /\ nextCalls[1] = << >>
    /\ Done(2)
    /\ handler[2].val = PromiseOf("reject", Err(Str("db down"), Str("stack:c")))
    /\ sink[2] = << >>
    /\ HandOffs(2) = << NextCall(Err(Str("db down"), Str("stack:c")), "adapter") >>

\* Two invocations of a deterministic handler with identical inputs: the
\* handler does the same on both, the sink it is given being the only
\* difference (a handler that returns its sink returns each one's own).
ReturnsOwnSink(h, r) == ~h.throws /\ Eventual(h) = ResOf(r)
SameInvocation(r1, r2) ==
    /\ pc[r1] # "idle"
    /\ pc[r1] = pc[r2]
    /\ \/ handler[r1] = handler[r2]
       \/ /\ ReturnsOwnSink(handler[r1], r1)
          /\ ReturnsOwnSink(handler[r2], r2)
          /\ handler[r1].self = handler[r2].self
          /\ IsPromise(handler[r1].val) = IsPromise(handler[r2].val)

NoOptions == options.dev = "absent" /\ options.log = "absent"
Unclassified(r) == Terminated(r) /\ ~IsHttpError(termErr[r])

(***************************************************************************)
(* C23.  httpErrorHandler installed without options has development mode   *)
(* on and console.error as its logging callback: every non-classified      *)
(* fault it is run on is passed, as it is, to that callback, once.         *)
(***************************************************************************)
C23_HttpDefaults ==
    (variant = "httpErrorHandler" /\ NoOptions /\ config.installed) =>
        /\ config.dev
        /\ config.log = "console.error"
        /\ \A r \in Reqs :
               Unclassified(r) => logCalls[r] = << termErr[r] >>

C23_Witness ==
    /\ variant = "httpErrorHandler"
    /\ NoOptions
    /\ \E r \in Reqs :
           /\ termErr[r] = Err(Str("db down"), Str("stack:c"))
           /\ term[r] = "written"
           /\ logCalls[r] = << Err(Str("db down"), Str("stack:c")) >>
           /\ config.dev

(***************************************************************************)
(* C24.  globalErrorHandler installed without a write callback calls no    *)
(* callback on a non-classified fault and still writes the status-500      *)
(* response; installed without isDev, development mode is on.              *)
(***************************************************************************)
C24_GlobalDefaults ==
    (variant = "globalErrorHandler" /\ config.installed) =>
        /\ options.dev = "absent" => config.dev
        /\ options.log = "absent" =>
               /\ config.log = "none"
               /\ \A r \in Reqs :
                      Unclassified(r) =>
                          /\ logCalls[r] = << >>
                          /\ term[r] = "written"
                          /\ TerminatorCalls(r)[1] =
                                 SinkCall("status", Num(500), "terminator", TRUE)
                          /\ Len(TerminatorWrites(r)) = 1
                          /\ TerminatorWrites(r)[1].ok

C24_Witness ==
    /\ variant = "globalErrorHandler"
    /\ NoOptions
    /\ \E r \in Reqs :
           /\ termErr[r] = Err(Str("db down"), Str("stack:c"))
           /\ term[r] = "written"
           /\ logCalls[r] = << >>
           /\ TerminatorCalls(r)[1] = SinkCall("status", Num(500), "terminator", TRUE)
           /\ TerminatorWrites(r)[1].arg.message = Str("db down")

\* What the installed terminator uses never changes.
C25_ConfigFrozen == config.installed => config' = config

\* The callback the terminator calls on a non-classified fault is the one
\* it was installed with, whatever the options object holds by then.
C25_UsesInstalled ==
    config.installed =>
        \A r \in Reqs :
            Unclassified(r) =>
                logCalls[r] = IF config.log = "none" THEN << >> ELSE << termErr[r] >>

(***************************************************************************)
(* C25.  The dev flag and the logging callback are read once, when the     *)
(* terminator is installed: neither serving requests nor the caller        *)
(* changing the options object it passed changes them, and the terminator  *)
(* goes on using the callback it was installed with.                       *)
(***************************************************************************)
C25_ReadOnceAtInstall ==
    [](C25_UsesInstalled) /\ [][C25_ConfigFrozen]_vars

C25_Witness ==
    /\ variant = "httpErrorHandler"
    /\ config.installed
    /\ config.dev
    /\ config.log = "console.error"
    /\ options = [dev |-> "false", log |-> "raises"]
    /\ \E r \in Reqs :
           /\ termErr[r] = Err(Str("db down"), Str("stack:c"))
           /\ term[r] = "written"
           /\ logCalls[r] = << termErr[r] >>

\* The status a sink has after the calls of a log: the code of the last
\* status call, or the host's default when there was none.
IsStatusCall(c) == c.op = "status"
StatusCalls(log) == SelectSeq(log, IsStatusCall)
SinkStatus(log) ==
    IF StatusCalls(log) = << >> THEN Str("host default")
    ELSE StatusCalls(log)[Len(StatusCalls(log))].arg

\* The handler's result is, or may still become, a value that is not an
\* Envelope: the plain-value path.
PlainPath(h) == ~h.throws /\ ~IsApiRes(Eventual(h))

(***************************************************************************)
(* C26.  On the plain-value path the adapter makes no status call: the     *)
(* status of the sink stays what the handler's own calls made it (the      *)
(* host's default, or the code the handler set), before and after the      *)
(* adapter's write.                                                        *)
(***************************************************************************)
C26_PlainPathKeepsStatus ==
    \A r \in Flights :
        (pc[r] # "idle" /\ PlainPath(handler[r])) =>
            /\ StatusCalls(AdapterCalls(r)) = << >>
            /\ SinkStatus(sink[r]) = SinkStatus(HandlerSinkCalls(r))

C26_Witness ==
    \E r \in Flights :
        /\ Done(r)
        /\ handler[r] = HandlerOf("status", FALSE, PromiseOf("fulfil", Obj("message", FALSE)))
        /\ sink[r] = << SinkCall("status", HandlerStatus, "handler", TRUE),
                        SinkCall("send", Obj("message", FALSE), "adapter", TRUE) >>
        /\ SinkStatus(sink[r]) = HandlerStatus

\* Invocation r1 returned a value and invocation r2 a promise that fulfilled
\* with the same value (each one's own sink counting as the same value).
SyncAsyncPair(r1, r2) ==
    /\ Done(r1) /\ Done(r2)
    /\ ~handler[r1].throws /\ ~IsPromise(handler[r1].val)
    /\ ~handler[r2].throws /\ IsPromise(handler[r2].val)
    /\ handler[r2].val.settle = "fulfil"
    /\ handler[r1].self = handler[r2].self
    /\ \/ handler[r1].val = handler[r2].val.val
       \/ handler[r1].val = ResOf(r1) /\ handler[r2].val.val = ResOf(r2)

(***************************************************************************)
(* C27.  For every value v, a handler that returns v and a handler that    *)
(* returns a promise fulfilling with v lead the adapter to the same calls  *)
(* on the sink (the same status call and body, or none) and the same calls *)
(* of the continuation; the promise's share comes only once it settled.    *)
(***************************************************************************)
C27_SyncAsyncSame ==
    \A r1, r2 \in Flights :
        /\ SyncAsyncPair(r1, r2) =>
               /\ AdapterCalls(r1) = AdapterCalls(r2)
               /\ HandOffs(r1) = HandOffs(r2)
        /\ (IsPromise(handler[r2].val) /\ pc[r2] = "pending") =>
               (AdapterCalls(r2) = << >> /\ HandOffs(r2) = << >>)

C27_Witness ==
    /\ SyncAsyncPair(1, 2)
    /\ handler[1].val = Str("Hello World!")
    /\ AdapterCalls(1) = << SinkCall("send", Str("Hello World!"), "adapter", TRUE) >>
    /\ AdapterCalls(2) = AdapterCalls(1)

\* While the promise is pending the adapter has done nothing, and a promise
\* that never settles stays pending.
C28_NothingWhilePending ==
    \A r \in Flights :
        /\ pc[r] = "pending" => (AdapterCalls(r) = << >> /\ HandOffs(r) = << >>)
        /\ (pc[r] # "idle" /\ IsPromise(handler[r].val)
              /\ handler[r].val.settle = "never") => pc[r] = "pending"

\* The promise of r will settle, and the adapter has taken the action its
\* settlement calls for.
WillSettle(r) == pc[r] = "pending" /\ handler[r].val.settle # "never"
Acted(r) ==
    /\ Done(r)
    /\ IsPromise(handler[r].val)
    /\ handler[r].val.settle = "reject" =>
           HandOffs(r) = << NextCall(handler[r].val.val, "adapter") >>
    /\ (handler[r].val.settle = "fulfil" /\ Writable(handler[r].val.val, r)) =>
           Len(AdapterWrites(r)) = 1

(***************************************************************************)
(* C28.  If the handler returns a promise that settles, the adapter        *)
(* eventually takes its action: a write when the promise fulfils with an   *)
(* Envelope or another writable value, a hand-off of the reason when it    *)
(* rejects.  While the promise is pending, and for ever if it never        *)
(* settles, the adapter neither writes nor hands off.                      *)
(***************************************************************************)
C28_EventuallyActs ==
    /\ [](C28_NothingWhilePending)
    /\ \A r \in Flights : WillSettle(r) ~> Acted(r)

C28_Witness ==
    /\ pc[1] = "pending"
    /\ handler[1].val = PromiseOf("never", Undefined)
    /\ sink[1] = << >> /\ nextCalls[1] = << >>
    /\ Acted(2)
    /\ handler[2].val = PromiseOf("fulfil", Created)
    /\ Len(AdapterWrites(2)) = 1

(***************************************************************************)
(* C29: the static getMethod of Controller keeps nothing between calls.    *)
(* Every call that reaches a container resolves the class there exactly    *)
(* once, calls for a key that is not a function included; it constructs    *)
(* nothing itself and keeps no instance.  Whether two handlers of one      *)
(* class share an instance is therefore the container's choice: a          *)
(* container with one instance per class binds them all to that instance,  *)
(* a container with a new instance per resolution binds each handler to    *)
(* the instance of its own call.  Without a container the first call ends  *)
(* the process and no handler is obtained.                                 *)
(***************************************************************************)
DIResolutions ==
    resolutions["AuthController"] + resolutions["BlogController"]

DIHandlers(cls) == {h \in obtained : h.boundTo.cls = cls}

C29_ContainerDecidesSharing ==
    /\ \A cls \in Classes : constructed[cls] = 0
    /\ memo = NoInstance
    /\ resolutions["LocalController"] = 0
    /\ \A h \in obtained :
           /\ h.from = StaticGetMethod
           /\ h.lookedUpOn = h.boundTo
           /\ h.boundTo.how = "di"
    /\ diAvailable =>
           /\ DIResolutions = ops
           /\ process = "running"
           /\ \A cls \in UserClasses :
                  /\ diScope = "singleton" =>
                         \A h \in DIHandlers(cls) : h.boundTo = Inst(cls, "di", 1)
                  /\ diScope = "transient" =>
                         /\ \A h \in DIHandlers(cls) :
                                h.boundTo.n \in 1..resolutions[cls]
                         /\ \A h1, h2 \in DIHandlers(cls) :
                                h1 # h2 => h1.boundTo # h2.boundTo
    /\ ~diAvailable =>
           /\ obtained = {}
           /\ DIResolutions = 0
           /\ ops <= 1
           /\ (ops = 1) = (process = "exited")
    /\ \A r \in Reqs :
           WasServed(r) => receiver[r] = served[r].boundTo

\* Two handlers for the same method of one class, each bound to the instance
\* its own call resolved, and a request served by the second of them.
C29_Witness ==
    /\ diAvailable
    /\ diScope = "transient"
    /\ resolutions["AuthController"] = 2
    /\ \E h1, h2 \in DIHandlers("AuthController") :
           /\ h1.key = "login" /\ h2.key = "login"
           /\ h1.boundTo = Inst("AuthController", "di", 1)
           /\ h2.boundTo = Inst("AuthController", "di", 2)
           /\ \E r \in Reqs :
                  /\ WasServed(r)
                  /\ served[r] = h2
                  /\ receiver[r] = Inst("AuthController", "di", 2)
                  /\ pc[r] = "done"

(***************************************************************************)
(* C30: a falsy eventual value ends the invocation with no action of the   *)
(* adapter.  When the handler returns, or its promise fulfils with, 0,     *)
(* false, the empty string, null or undefined, the adapter calls nothing   *)
(* on the sink, hands nothing to the continuation and raises nothing, at   *)
(* any point of the invocation; the terminator never runs for the request; *)
(* whatever is on the sink or the continuation was put there by the        *)
(* handler, so a handler that did neither leaves the request unanswered.   *)
(***************************************************************************)
Falsy == { Undefined, Null, Num(0), Bool(FALSE), Str("") }

C30_FalsyNoTerminalAction ==
    \A r \in Reqs :
        LET h == handler[r] IN
        (pc[r] # "idle" /\ Yields(h) /\ Eventual(h) \in Falsy) =>
            /\ \A v \in Falsy : ~Truthy(v)
            /\ AdapterCalls(r) = << >>
            /\ HandOffs(r) = << >>
            /\ ~raisedOut[r]
            /\ term[r] = "none"
            /\ SelectSeq(sink[r], ByHandler) = sink[r]
            /\ SelectSeq(nextCalls[r], ByHandler) = nextCalls[r]
            /\ h.self = "none" => (sink[r] = << >> /\ nextCalls[r] = << >>)

\* A handler whose promise fulfilled with 0 and that neither wrote nor called
\* next: the adapter is done and the request has no response.
C30_Witness ==
    \E r \in Reqs :
        /\ Done(r)
        /\ handler[r] = HandlerOf("none", FALSE, PromiseOf("fulfil", Num(0)))
        /\ sink[r] = << >>
        /\ nextCalls[r] = << >>
        /\ term[r] = "none"

(***************************************************************************)
(* C31: a write of the adapter that raises is handed to the continuation.  *)
(* When the eventual value is one the adapter writes and the sink cannot   *)
(* serialise it, the adapter's last sink call is that failed write, the    *)
(* continuation receives the value the sink raised, once and from the      *)
(* adapter, and nothing is raised into the host; this holds for a returned *)
(* value and for a fulfilled one.  Conversely the adapter hands off after  *)
(* a yielded value only when its write failed.                             *)
(***************************************************************************)
FailedWrite(c) == ByAdapter(c) /\ IsBodyWrite(c) /\ ~c.ok
FailedWrites(r) == SelectSeq(sink[r], FailedWrite)

\* The body the adapter gives to the sink for a value it writes.
BodyOf(v) == IF IsApiRes(v) THEN ApiResToJson(v) ELSE v

WriteRaises(h, r) ==
    /\ Yields(h)
    /\ Writable(Eventual(h), r)
    /\ ~Serializable(BodyOf(Eventual(h)))

C31_WriteFailureHandedOff ==
    \A r \in Flights :
        LET h == handler[r] IN
        /\ (Done(r) /\ WriteRaises(h, r)) =>
               /\ Len(FailedWrites(r)) = 1
               /\ FailedWrites(r)[1].arg = BodyOf(Eventual(h))
               /\ AdapterCalls(r)[Len(AdapterCalls(r))] = FailedWrites(r)[1]
               /\ HandOffs(r) = << NextCall(SerializeError, "adapter") >>
               /\ ~raisedOut[r]
        /\ (Done(r) /\ Yields(h) /\ ~WriteRaises(h, r)) =>
               /\ FailedWrites(r) = << >>
               /\ HandOffs(r) = << >>
        /\ ~Done(r) => (FailedWrites(r) = << >> /\ HandOffs(r) = << >>)

\* One request whose handler returned a circular object and one whose
\* promise fulfilled with an Envelope carrying one: each has the failed
\* write and the hand-off of the sink's error.
C31_Witness ==
    \E r1, r2 \in Flights :
        /\ Done(r1) /\ Done(r2)
        /\ handler[r1] = HandlerOf("none", FALSE, Obj("cycle", TRUE))
        /\ handler[r2] = HandlerOf("none", FALSE, PromiseOf("fulfil", OkCircular))
        /\ sink[r1] = << SinkCall("send", Obj("cycle", TRUE), "adapter", FALSE) >>
        /\ sink[r2] = << SinkCall("status", Num(200), "adapter", TRUE),
                         SinkCall("json", ApiResToJson(OkCircular), "adapter", FALSE) >>
        /\ nextCalls[r1] = << NextCall(SerializeError, "adapter") >>
        /\ nextCalls[r2] = << NextCall(SerializeError, "adapter") >>

(***************************************************************************)
(* C32: the adapter and the terminator together answer a request at most   *)
(* once.  For a request whose handler makes no call on the sink itself,    *)
(* the sink holds at most one completed body write in every state, and it  *)
(* comes with its status: a write of the adapter means the terminator was  *)
(* never started for the request, and a call of the terminator on the sink *)
(* means no write of the adapter completed (the adapter may have set a     *)
(* status and failed to write the body before it handed the failure over). *)
(***************************************************************************)
CompletedWrite(c) == IsBodyWrite(c) /\ c.ok
CompletedWrites(r) == SelectSeq(sink[r], CompletedWrite)
CompletedTerminatorWrite(c) == ByTerminator(c) /\ IsBodyWrite(c) /\ c.ok
CompletedTerminatorWrites(r) == SelectSeq(sink[r], CompletedTerminatorWrite)

C32_AtMostOneResponse ==
    \A r \in Reqs :
        (pc[r] # "idle" /\ handler[r].self # "writes") =>
            /\ HandlerSinkCalls(r) = << >>
            /\ Len(CompletedWrites(r)) <= 1
            /\ Len(CompletedAdapterWrites(r)) + Len(CompletedTerminatorWrites(r)) <= 1
            /\ CompletedAdapterWrites(r) # << >> =>
                   /\ term[r] = "none"
                   /\ TerminatorCalls(r) = << >>
                   /\ sink[r][Len(sink[r])] = CompletedAdapterWrites(r)[1]
            /\ TerminatorCalls(r) # << >> =>
                   /\ CompletedAdapterWrites(r) = << >>
                   /\ Len(TerminatorCalls(r)) = 2
                   /\ TerminatorCalls(r)[1].op = "status"
                   /\ sink[r][Len(sink[r])] = TerminatorCalls(r)[2]
                   /\ CompletedTerminatorWrites(r) = << TerminatorCalls(r)[2] >>

\* The closest the two come: the adapter set the Envelope's status, its body
\* write failed, and the terminator then wrote the one response.
C32_Witness ==
    \E r \in Reqs :
        /\ handler[r] = HandlerOf("none", FALSE, OkCircular)
        /\ term[r] = "written"
        /\ Len(sink[r]) = 4
        /\ sink[r][1] = SinkCall("status", Num(200), "adapter", TRUE)
        /\ sink[r][2] = SinkCall("json", ApiResToJson(OkCircular), "adapter", FALSE)
        /\ sink[r][3] = SinkCall("status", Num(500), "terminator", TRUE)
        /\ sink[r][4].by = "terminator" /\ sink[r][4].ok
        /\ CompletedWrites(r) = << sink[r][4] >>

\* A request served by wrapper(h) and one served by wrapper(wrapper(h)), for
\* the same h, at the same stage.
OnceAndTwice(r1, r2) ==
    /\ WrappedOnce(r1)
    /\ WrappedTwice(r2)
    /\ SameInvocation(r1, r2)

C33_Equivalent ==
    \A r1, r2 \in Flights :
        OnceAndTwice(r1, r2) =>
            /\ sink[r1] = sink[r2]
            /\ nextCalls[r1] = nextCalls[r2]
            /\ raisedOut[r1] = raisedOut[r2]
            /\ term[r1] = term[r2]
            /\ termErr[r1] = termErr[r2]

(***************************************************************************)
(* C33 as claimed: wrapper(wrapper(h)) does what wrapper(h) does, and for  *)
(* every handler that is one single sink write or one single failure       *)
(* hand-off.  (Refuted: the adapter does neither for a falsy value or the  *)
(* sink itself, and both when its write raises.)                           *)
(***************************************************************************)
C33_SameSingleAction ==
    /\ C33_Equivalent
    /\ \A r \in Flights :
           Done(r) => Len(AdapterWrites(r)) + Len(HandOffs(r)) = 1

(***************************************************************************)
(* C33, amended: wrapper(wrapper(h)) is observably equivalent to           *)
(* wrapper(h).  At every stage the twice-wrapped handler has made the same *)
(* calls on the sink and on the continuation as the once-wrapped one and   *)
(* has raised nothing: the outer adapter adds no call of its own, so the   *)
(* adapter's calls are at most one body write and at most one hand-off,    *)
(* and none while the inner promise is pending.                            *)
(***************************************************************************)
C33_DoubleWrapEquivalent ==
    /\ C33_Equivalent
    /\ \A r \in Flights :
           WrappedTwice(r) =>
               /\ ~raisedOut[r]
               /\ Len(AdapterWrites(r)) <= 1
               /\ Len(HandOffs(r)) <= 1
               /\ pc[r] \in {"idle", "pending"} =>
                      (AdapterCalls(r) = << >> /\ HandOffs(r) = << >>)
               /\ (Done(r) /\ Yields(handler[r]) /\ ~Writable(Eventual(handler[r]), r)) =>
                      (AdapterCalls(r) = << >> /\ HandOffs(r) = << >>)

\* The same handler behind both routes, its promise fulfilled with an
\* Envelope on both: one status call and one body write on each sink; and
\* a handler returning nothing on both leaves both sinks empty.
C33_Witness ==
    \E r1, r2 \in Flights :
        /\ OnceAndTwice(r1, r2)
        /\ Done(r2)
        /\ handler[r2] = HandlerOf("none", FALSE, PromiseOf("fulfil", Created))
        /\ sink[r2] = << SinkCall("status", Num(201), "adapter", TRUE),
                         SinkCall("json", ApiResToJson(Created), "adapter", TRUE) >>
        /\ sink[r1] = sink[r2]
        /\ nextCalls[r2] = << >>

(***************************************************************************)
(* C34: the adapter calls the continuation only to hand a failure over.    *)
(* When the handler returns, or its promise fulfils, and the adapter's     *)
(* write does not raise, the adapter makes no call of the continuation:    *)
(* the continuation has been called only if the handler called it, and the *)
(* terminator is not started.  Every call the adapter does make follows a  *)
(* throw, a rejection or a raise of its own write, and there is one.       *)
(***************************************************************************)
C34_NextOnlyOnFailure ==
    \A r \in Reqs :
        LET h == handler[r] IN
        /\ (pc[r] # "idle" /\ Yields(h) /\ ~WriteRaises(h, r)) =>
               /\ HandOffs(r) = << >>
               /\ nextCalls[r] = HandlerNextCalls(r)
               /\ nextCalls[r] = (IF h.self = "next"
                                  THEN << NextCall(Undefined, "handler") >>
                                  ELSE << >>)
               /\ term[r] = "none"
        /\ HandOffs(r) # << >> =>
               /\ Len(HandOffs(r)) = 1
               /\ Done(r)
               /\ Fails(h) \/ WriteRaises(h, r)
        /\ (pc[r] = "pending" \/ pc[r] = "idle") => HandOffs(r) = << >>

\* An asynchronous middleware that called next() itself and returned
\* nothing: its own call is the only one, and nothing was written.
C34_Witness ==
    \E r \in Reqs :
        /\ Done(r)
        /\ handler[r] = HandlerOf("next", FALSE, PromiseOf("fulfil", Undefined))
        /\ nextCalls[r] = << NextCall(Undefined, "handler") >>
        /\ HandOffs(r) = << >>
        /\ sink[r] = << >>
        /\ term[r] = "none"

(***************************************************************************)
(* C35: an HttpError that the handler returns, or that its promise fulfils *)
(* with, is a result and not a failure.  The adapter passes it to the      *)
(* sink's send as the body and makes no status call, so the error's status *)
(* never reaches the sink; it makes no hand-off, and the terminator is not *)
(* started for the request.                                                *)
(***************************************************************************)
C35_ReturnedErrorIsBody ==
    \A r \in Reqs :
        LET h == handler[r]
            e == Eventual(h)
        IN (Done(r) /\ Yields(h) /\ IsHttpError(e)) =>
               /\ AdapterCalls(r) = << SinkCall("send", e, "adapter", TRUE) >>
               /\ \A i \in 1 .. Len(sink[r]) :
                      ~(sink[r][i].op = "status" /\ sink[r][i].arg = Num(e.status))
               /\ HandOffs(r) = << >>
               /\ ~raisedOut[r]
               /\ term[r] = "none"
               /\ termErr[r] = Undefined
               /\ TerminatorCalls(r) = << >>
               /\ logCalls[r] = << >>

\* A handler whose promise fulfilled with a 400 error: the error is the
\* body of the only sink call, and the terminator, though installed, has
\* not been started.
C35_Witness ==
    \E r \in Reqs :
        /\ Done(r)
        /\ config.installed
        /\ handler[r] = HandlerOf("none", FALSE, PromiseOf("fulfil", NameRequired))
        /\ sink[r] = << SinkCall("send", NameRequired, "adapter", TRUE) >>
        /\ nextCalls[r] = << >>
        /\ term[r] = "none"

(***************************************************************************)
(* C36: on an HttpError the terminator only answers.  Whatever the         *)
(* configuration, and also with a logging callback that would raise, the   *)
(* callback is not called, the terminator does not raise, no call of the   *)
(* continuation is the terminator's, and the calls it makes on the sink    *)
(* are those it would make with development mode the other way round.      *)
(***************************************************************************)
\* The installed configuration with development mode switched.
OtherMode(cfg) == [cfg EXCEPT !.dev = ~cfg.dev]
\* The sink calls of one terminator run on err under configuration cfg.
ResponseUnder(cfg, err) == ErrorTerminator(cfg, err, << >>, << >>).out.sink

C36_ClassifiedOnlyAnswered ==
    \A r \in Reqs :
        (Terminated(r) /\ IsHttpError(termErr[r])) =>
            /\ logCalls[r] = << >>
            /\ term[r] = "written"
            /\ \A i \in 1 .. Len(nextCalls[r]) : nextCalls[r][i].by # "terminator"
            /\ Len(nextCalls[r]) <= 2
            /\ TerminatorCalls(r) = ResponseUnder(config, termErr[r])
            /\ TerminatorCalls(r) = ResponseUnder(OtherMode(config), termErr[r])
            /\ ErrorTerminator(OtherMode(config), termErr[r], << >>, << >>).logs = << >>

\* A 404 error answered by a terminator in production mode whose logging
\* callback raises when called: the response is there and no call was made.
C36_Witness ==
    \E r \in Reqs :
        /\ term[r] = "written"
        /\ termErr[r] = NotFound
        /\ ~config.dev
        /\ config.log = "raises"
        /\ logCalls[r] = << >>
        /\ TerminatorCalls(r)[1] = SinkCall("status", Num(404), "terminator", TRUE)
        /\ TerminatorCalls(r) =
             ResponseUnder([config EXCEPT !.dev = TRUE], NotFound)

(***************************************************************************)
(* C37: createController in local mode keeps nothing between calls.  Every *)
(* local creation constructs an instance of its own: two controller        *)
(* objects made locally for one class hold different instances, the class  *)
(* has been constructed once per such object, and no handler of one        *)
(* object, and no request it serves, runs on the instance of the other.    *)
(***************************************************************************)
LocalInstances(cls) == { k.instance : k \in LocallyMade(cls) }

C37_LocalNeverShared ==
    /\ \A cls \in Classes :
           /\ Cardinality(LocalInstances(cls)) = Cardinality(LocallyMade(cls))
           /\ Cardinality(LocallyMade(cls)) + (IF memo.cls = cls THEN 1 ELSE 0)
                  = constructed[cls]
    /\ \A k1, k2 \in controllers :
           (k1.id # k2.id /\ k1.cls = k2.cls /\ k1.instance.how = "new") =>
               /\ k1.instance # k2.instance
               /\ \A h \in HandlersOf(k1) :
                      /\ h.boundTo # k2.instance
                      /\ h.lookedUpOn # k2.instance
               /\ \A r \in Calls :
                      (WasServed(r) /\ served[r].from = k1.id) =>
                          receiver[r] # k2.instance

\* Two local controller objects of one class, a handler taken from the
\* second, and a request it served: the request ran on the second instance.
C37_Witness ==
    \E k1, k2 \in LocallyMade("AuthController") :
        /\ k1.id = 1 /\ k2.id = 2
        /\ k1.instance = Inst("AuthController", "new", 1)
        /\ k2.instance = Inst("AuthController", "new", 2)
        /\ constructed["AuthController"] = 2
        /\ \E h \in HandlersOf(k2) :
               /\ h.key = "login"
               /\ h.boundTo = k2.instance
               /\ \E r \in Calls :
                      /\ served[r] = h
                      /\ receiver[r] = k2.instance
                      /\ pc[r] = "done"

====
